---- MODULE Spec2Model ----
(***************************************************************************)
(* State-machine model of the floor-plan editor (src/src/App.jsx, first    *)
(* application variant, lines 1-1279) together with the geometry helpers   *)
(* of src/src/modeling.js and the 3D placement rules of                    *)
(* src/src/Scene3D.jsx.                                                    *)
(*                                                                         *)
(* Conventions                                                             *)
(*  - Array indices are the 0-based indices of the JavaScript code; the    *)
(*    operator At reads a list the way `list[i]` does and yields an        *)
(*    "undefined" record outside the list.                                 *)
(*  - null / undefined numbers are the value NULL (-1).                    *)
(*  - Plan coordinates and footprints (x, y, width, depth) are in mm.      *)
(*    Vertical sizes (height, z) are in 1/1000 mm so that RU_HEIGHT =      *)
(*    44.45 mm and half of it are integers; arithmetic is exact.           *)
(*  - Fields that no handler ever reads back from a stored entity (label,  *)
(*    colorKey, color, frontFace, rearFace, installMode/mountTarget        *)
(*    copies on an item) are not part of the records.                      *)
(***************************************************************************)
EXTENDS FiniteSets, Integers, Sequences, TLC

VARIABLES
    equipment,        \* useState([])  App.jsx:160
    trays,            \* useState([])  App.jsx:161
    connections,      \* useState([])  App.jsx:162
    openings,         \* useState([])  App.jsx:159
    room,             \* useState(defaultRoom) App.jsx:158
    selectedTarget,   \* useState(null) App.jsx:168
    equipmentDraft,   \* useState(defaultEquipment) App.jsx:164
    connectionDraft,  \* useState(defaultConnection) App.jsx:166
    interaction,      \* planInteractionRef.current App.jsx:171
    lastOp,           \* history: the handler that ran last and its argument
    fnIn,             \* input of a pure function under test
    fnOut             \* its result

vars == <<equipment, trays, connections, openings, room, selectedTarget,
          equipmentDraft, connectionDraft, interaction, lastOp, fnIn, fnOut>>

-----------------------------------------------------------------------------
(* Bounds of the model *)

MaxEquipment == 3
MaxTrays == 1
MaxConnections == 1
MaxOpenings == 1

-----------------------------------------------------------------------------
(* Constants of the program *)

NULL == -1

\* modeling.js:1-2, in 1/1000 mm
RU_HEIGHT == 44450
RACK_BASE_CLEARANCE == 40000

\* modeling.js:4-10 (width, depth in mm; height in 1/1000 mm)
EQUIPMENT_PRESETS ==
    [cabinet |-> [width |-> 600, depth |-> 1000, height |-> 2200000, mountable |-> FALSE, rackUnits |-> 42],
     crac    |-> [width |-> 900, depth |-> 1200, height |-> 2400000, mountable |-> FALSE, rackUnits |-> 0],
     switch  |-> [width |-> 450, depth |-> 450,  height |-> 44450,   mountable |-> TRUE,  rackUnits |-> 1],
     ups     |-> [width |-> 440, depth |-> 700,  height |-> 133350,  mountable |-> TRUE,  rackUnits |-> 3],
     pdu     |-> [width |-> 440, depth |-> 220,  height |-> 88900,   mountable |-> TRUE,  rackUnits |-> 2]]

EquipmentTypes == DOMAIN EQUIPMENT_PRESETS

\* App.jsx:28-40
defaultEquipment ==
    [type |-> "cabinet", x |-> 1200, y |-> 1800, width |-> 600, depth |-> 1000,
     height |-> 2200000, rotationDeg |-> 0, installMode |-> "floor", mountTarget |-> NULL]

\* App.jsx:41
defaultTray ==
    [x |-> 500, y |-> 500, z |-> 2600000, width |-> 300, depth |-> 100,
     lengthA |-> 2500, primaryDirection |-> "x+", turn |-> "none", lengthB |-> 1800]

\* App.jsx:27
defaultOpening ==
    [type |-> "door", wall |-> 0, offset |-> 800, width |-> 1000, height |-> 2100, sillHeight |-> 0]

-----------------------------------------------------------------------------
(* JavaScript list and number helpers *)

Max(a, b) == IF a >= b THEN a ELSE b
Min(a, b) == IF a <= b THEN a ELSE b

\* Math.round(a / b) for a >= 0, b > 0
RoundDiv(a, b) == (2 * a + b) \div (2 * b)

\* `list[i]` on a list of equipment items: undefined outside the list
UndefinedItem ==
    [type |-> "undefined", x |-> 0, y |-> 0, width |-> 0, depth |-> 0, height |-> 0,
     rotationDeg |-> 0, mountedIn |-> NULL, rackStart |-> NULL, rackUnits |-> 0]

At(list, i) == IF i \in 0 .. (Len(list) - 1) THEN list[i + 1] ELSE UndefinedItem

UndefinedTray ==
    [x |-> 0, y |-> 0, z |-> 0, width |-> 0, depth |-> 0, lengthA |-> 0,
     primaryDirection |-> "undefined", turn |-> "none", lengthB |-> 0]

TrayAt(list, i) == IF i \in 0 .. (Len(list) - 1) THEN list[i + 1] ELSE UndefinedTray

Indices(list) == 0 .. (Len(list) - 1)

\* list.filter((_, itemIndex) => !removed.has(itemIndex))
DropIndexes(list, removed) ==
    LET F[k \in 0 .. Len(list)] ==
            IF k = 0 THEN << >>
            ELSE IF (k - 1) \in removed THEN F[k - 1] ELSE Append(F[k - 1], list[k])
    IN F[Len(list)]

\* [...removed].filter((removedIndex) => removedIndex < i).length
RemovedBefore(removed, i) == Cardinality({r \in removed : r < i})

-----------------------------------------------------------------------------
(* modeling.js: trays and connection anchors *)

\* modeling.js:38-45
directionVector_Oblique(direction) ==
    CASE direction = "x-" -> [x |-> -1, y |-> 0]
      [] direction = "y+" -> [x |-> 0, y |-> 1]
      [] direction = "y-" -> [x |-> 0, y |-> -1]
      [] direction = "x+" -> [x |-> 1, y |-> 0]
      [] OTHER -> [x |-> 1, y |-> 1]
directionVector(direction) ==
    CASE direction = "x-" -> [x |-> -1, y |-> 0]
      [] direction = "y+" -> [x |-> 0, y |-> 1]
      [] direction = "y-" -> [x |-> 0, y |-> -1]
      [] OTHER -> [x |-> 1, y |-> 0]

\* modeling.js:47-51
turnVector_Mirrored(primary, turn) ==
    IF turn = "none" THEN [x |-> 0, y |-> 0]
    ELSE IF turn = "left" THEN [x |-> primary.y, y |-> -primary.x]
    ELSE [x |-> -primary.y, y |-> primary.x]
turnVector(primary, turn) ==
    IF turn = "none" THEN [x |-> 0, y |-> 0]
    ELSE IF turn = "left" THEN [x |-> -primary.y, y |-> primary.x]
    ELSE [x |-> primary.y, y |-> -primary.x]

\* modeling.js:94-106
getTraySegments(tray) ==
    LET primary == directionVector(tray.primaryDirection)
        firstEnd == [x |-> tray.x + primary.x * tray.lengthA,
                     y |-> tray.y + primary.y * tray.lengthA, z |-> tray.z]
        first == [start |-> [x |-> tray.x, y |-> tray.y, z |-> tray.z], end |-> firstEnd]
        secondary == turnVector(primary, tray.turn)
    IN IF tray.turn # "none" /\ tray.lengthB > 0
       THEN << first,
               [start |-> firstEnd,
                end |-> [x |-> firstEnd.x + secondary.x * tray.lengthB,
                         y |-> firstEnd.y + secondary.y * tray.lengthB, z |-> tray.z]] >>
       ELSE << first >>

\* A 3D point, the value null, or an exception thrown while computing it
Point(px, py, pz) == [tag |-> "point", x |-> px, y |-> py, z |-> pz]
NullAnchor == [tag |-> "null", x |-> 0, y |-> 0, z |-> 0]
ThrowAnchor == [tag |-> "throw", x |-> 0, y |-> 0, z |-> 0]

\* modeling.js:108-119 (coordinates and lengths are even, so the midpoint is exact)
getTrayAnchor(tray) ==
    LET segments == getTraySegments(tray)
    IN IF Len(segments) = 0 THEN Point(tray.x, tray.y, tray.z)
       ELSE LET first == segments[1]
            IN Point((first.start.x + first.end.x) \div 2,
                     (first.start.y + first.end.y) \div 2, tray.z)

\* `!item` / `!tray`: the list had nothing at that index
IsMissing_NoGuard(entry) == FALSE
IsMissing(entry) == entry = UndefinedItem \/ entry = UndefinedTray

\* `item.mountedIn !== null && item.mountedIn !== undefined`  modeling.js:140
HasMount(item) == item.mountedIn # NULL

\* `item.rackStart || 1`, `item.rackUnits || 1`
OrOne(v) == IF v = NULL \/ v = 0 THEN 1 ELSE v

\* modeling.js:139-141: the parent lookup; null when there is no mount
mountedCabinetOf(item, list) ==
    IF HasMount(item) THEN At(list, item.mountedIn) ELSE UndefinedItem

\* modeling.js:141  `mountedCabinet && mountedCabinet.type === "cabinet"`
IsCabinetParent_AnyParent(parent) == ~IsMissing(parent)
IsCabinetParent(parent) == ~IsMissing(parent) /\ parent.type = "cabinet"

\* modeling.js:145
mountedAnchorZ_NoBase(item) ==
    (item.rackStart - 1) * RU_HEIGHT + item.height \div 2 + RACK_BASE_CLEARANCE
mountedAnchorZ(item) ==
    (OrOne(item.rackStart) - 1) * RU_HEIGHT + item.height \div 2 + RACK_BASE_CLEARANCE

\* modeling.js:139-148: the part of getConnectionAnchor that reads the item's
\* fields; on undefined the property read throws a TypeError
equipmentAnchor_OwnXY(item, list) ==
    IF item = UndefinedItem THEN ThrowAnchor
    ELSE LET mountedCabinet == mountedCabinetOf(item, list)
         IN IF IsCabinetParent(mountedCabinet)
            THEN Point(item.x, item.y, mountedAnchorZ(item))
            ELSE Point(item.x, item.y, item.height)
equipmentAnchor(item, list) ==
    IF item = UndefinedItem THEN ThrowAnchor
    ELSE LET mountedCabinet == mountedCabinetOf(item, list)
         IN IF IsCabinetParent(mountedCabinet)
            THEN Point(mountedCabinet.x, mountedCabinet.y, mountedAnchorZ(item))
            ELSE Point(item.x, item.y, item.height)

\* A reference {kind, index}; NullRef is the value null
NullRef == [kind |-> "null", index |-> NULL]
Ref(k, i) == [kind |-> k, index |-> i]

\* modeling.js:134-156
getConnectionAnchor(ref, list, trayList) ==
    IF ref = NullRef THEN NullAnchor
    ELSE IF ref.kind = "equipment"
    THEN LET item == At(list, ref.index)
         IN IF IsMissing(item) THEN NullAnchor ELSE equipmentAnchor(item, list)
    ELSE IF ref.kind = "tray"
    THEN LET tray == TrayAt(trayList, ref.index)
         IN IF IsMissing(tray) THEN NullAnchor
            ELSE IF tray = UndefinedTray THEN ThrowAnchor ELSE getTrayAnchor(tray)
    ELSE NullAnchor

\* modeling.js:121-132
normalizeConnection(connection) ==
    IF "fromKind" \in DOMAIN connection /\ "toKind" \in DOMAIN connection
    THEN connection
    ELSE [fromKind |-> "equipment", fromIndex |-> connection.from,
          toKind |-> "equipment", toIndex |-> connection.to,
          controlX |-> connection.controlX, controlY |-> connection.controlY,
          routeHeight |-> connection.routeHeight]

NullPath == [tag |-> "null"]

\* `!from || !to`  App.jsx:114
PathUndrawable_FromOnly(from, to) == from.tag = "null"
PathUndrawable(from, to) == from.tag = "null" \/ to.tag = "null"

\* App.jsx:114-120: the path once both anchors are computed (controlX ?? to.x:
\* the stored control point when there is one)
pathFromAnchors(normalized, from, to) ==
    IF from.tag = "throw" \/ to.tag = "throw" THEN [tag |-> "throw"]
    ELSE IF PathUndrawable(from, to) THEN NullPath
    ELSE [tag |-> "path", from |-> from, to |-> to,
          control |-> [x |-> IF "controlX" \in DOMAIN normalized THEN normalized.controlX ELSE to.x,
                       y |-> IF "controlY" \in DOMAIN normalized THEN normalized.controlY ELSE from.y,
                       z |-> normalized.routeHeight],
          normalized |-> normalized]

\* App.jsx:112-113: both anchors of a normalized connection
pathOfNormalized(normalized, list, trayList) ==
    pathFromAnchors(normalized,
                    getConnectionAnchor(Ref(normalized.fromKind, normalized.fromIndex), list, trayList),
                    getConnectionAnchor(Ref(normalized.toKind, normalized.toIndex), list, trayList))

\* App.jsx:110-121
getConnectionPath(connection, list, trayList) ==
    pathOfNormalized(normalizeConnection(connection), list, trayList)

-----------------------------------------------------------------------------
(* App.jsx: rack allocation and the 2D display of mounted items *)

\* .sort((a, b) => a.start - b.start): stable insertion sort by start
RECURSIVE insertByStart(_, _)
insertByStart(sorted, slot) ==
    IF sorted = << >> THEN << slot >>
    ELSE IF sorted[Len(sorted)].start <= slot.start THEN Append(sorted, slot)
    ELSE Append(insertByStart(SubSeq(sorted, 1, Len(sorted) - 1), slot), sorted[Len(sorted)])

sortByStart_Unsorted(slots) == slots
sortByStart(slots) ==
    LET F[k \in 0 .. Len(slots)] == IF k = 0 THEN << >> ELSE insertByStart(F[k - 1], slots[k])
    IN F[Len(slots)]

\* App.jsx:124-127
occupiedSlots(list, cabinetIndex) ==
    LET mounted == SelectSeq(list, LAMBDA item : item.mountedIn = cabinetIndex)
    IN sortByStart([k \in 1 .. Len(mounted) |->
                       [start |-> OrOne(mounted[k].rackStart),
                        end |-> OrOne(mounted[k].rackStart) + OrOne(mounted[k].rackUnits) - 1]])

\* App.jsx:131  the requested run ends before the occupied slot begins
fitsBefore_Touching(cursor, rackUnits, slot) == cursor + rackUnits - 1 <= slot.start
fitsBefore(cursor, rackUnits, slot) == cursor + rackUnits - 1 < slot.start

\* App.jsx:129-136
RECURSIVE rackSweep(_, _, _, _)
rackSweep(occupied, k, cursor, rackUnits) ==
    IF k > Len(occupied) THEN cursor
    ELSE IF fitsBefore(cursor, rackUnits, occupied[k]) THEN cursor
    ELSE rackSweep(occupied, k + 1, Max(cursor, occupied[k].end + 1), rackUnits)

\* App.jsx:123-137
getNextRackStart(list, cabinetIndex, rackUnits) ==
    rackSweep(occupiedSlots(list, cabinetIndex), 1, 1, rackUnits)

\* App.jsx:139-155
getMountedEquipmentDisplay(item, list) ==
    IF ~HasMount(item) THEN item
    ELSE LET cabinet == At(list, item.mountedIn)
         IN IF IsMissing(cabinet) \/ cabinet.type # "cabinet" THEN item
            ELSE [item EXCEPT !.x = cabinet.x, !.y = cabinet.y,
                              !.width = Max(Min(item.width, cabinet.width - 120), 180),
                              !.depth = Max(Min(item.depth, cabinet.depth - 180), 160),
                              !.rotationDeg = cabinet.rotationDeg]

\* Scene3D.jsx:213-230 and 266-277: the plan position (x, y) of an item's mesh
\* (the scene's x and z axes), before the centre offset is subtracted
sceneParent(item, list) ==
    IF HasMount(item) /\ ~IsMissing(At(list, item.mountedIn)) THEN At(list, item.mountedIn)
    ELSE UndefinedItem

scenePosition(item, list) ==
    IF item.type = "cabinet" THEN [x |-> item.x, y |-> item.y]
    ELSE LET mountedCabinet == sceneParent(item, list)
         IN IF ~IsMissing(mountedCabinet)
            THEN [x |-> mountedCabinet.x, y |-> mountedCabinet.y]
            ELSE [x |-> item.x, y |-> item.y]

\* Scene3D.jsx:272-273: the footprint of the mesh of an item that is no cabinet
sceneSize(item, list) ==
    LET mountedCabinet == sceneParent(item, list)
    IN IF ~IsMissing(mountedCabinet)
       THEN [width |-> Min(item.width, mountedCabinet.width - 120),
             depth |-> Min(item.depth, mountedCabinet.depth - 180)]
       ELSE [width |-> item.width, depth |-> item.depth]

-----------------------------------------------------------------------------
(* modeling.js: room footprint, walls and opening bounds *)

\* App.jsx:26 (heights of the room stay in mm: they are only compared with
\* opening heights)
defaultRoom ==
    [width |-> 6000, length |-> 9000, height |-> 3200, southTiltDeg |-> 0, eastTiltDeg |-> 0,
     floorElevation |-> 300, floorTileSize |-> 600]

\* modeling.js:12-14  Math.min(Math.max(Number(value) || 0, min), max)
clamp_LowerOnly(value, lo, hi) == Max(value, lo)
clamp(value, lo, hi) == Min(Max(value, lo), hi)

Abs(v) == IF v < 0 THEN -v ELSE v
Sign(v) == IF v < 0 THEN -1 ELSE IF v > 0 THEN 1 ELSE 0

\* a / b rounded to the nearest integer, for b > 0 and a of either sign
RoundSigned(a, b) == Sign(a) * RoundDiv(Abs(a), b)

\* Largest r with r * r <= v
RECURSIVE isqrtFrom(_, _, _)
isqrtFrom(v, lo, hi) ==
    IF lo >= hi THEN lo
    ELSE LET mid == (lo + hi + 1) \div 2
         IN IF mid * mid <= v THEN isqrtFrom(v, mid, hi) ELSE isqrtFrom(v, lo, mid - 1)
isqrt(v) == isqrtFrom(v, 0, 46340)

\* Math.tan(degToRad(deg)) in units of 1/100000, for whole degrees up to 20
\* either way
TanScale == 100000
tanTable ==
    <<0, 1746, 3492, 5241, 6993, 8749, 10510, 12278, 14054, 15838, 17633, 19438, 21256,
      23087, 24933, 26795, 28675, 30573, 32492, 34433, 36397>>
tanScaled(deg) == Sign(deg) * tanTable[Abs(deg) + 1]

\* modeling.js:54-55  Math.tan(degToRad(deg)) * len, to the nearest mm
tiltOffset(deg, len) == RoundSigned(tanScaled(deg) * len, TanScale)

\* modeling.js:53-62
getRoomFootprint(r) ==
    LET southRise == tiltOffset(r.southTiltDeg, r.width)
        eastShift == tiltOffset(r.eastTiltDeg, r.length)
    IN << [x |-> 0, y |-> 0],
          [x |-> r.width, y |-> southRise],
          [x |-> r.width + eastShift, y |-> southRise + r.length],
          [x |-> eastShift, y |-> r.length] >>

\* modeling.js:24-27: a vector of length 1 in the direction of (vx, vy), its
\* components in units of 1/DirScale; `|| 1` divides the null vector by 1
DirScale == 10000
normalize(vx, vy) ==
    LET length == IF isqrt(vx * vx + vy * vy) = 0 THEN 1 ELSE isqrt(vx * vx + vy * vy)
    IN [x |-> RoundSigned(vx * DirScale, length), y |-> RoundSigned(vy * DirScale, length)]

\* modeling.js:67  `points[(index + 1) % points.length]`, as a position of the
\* 1-based sequence of corners
nextCorner_Same(k) == k
nextCorner(k) == (k % 4) + 1

\* modeling.js:64-78: lengths in whole mm
getWallSegments(r) ==
    LET points == getRoomFootprint(r)
    IN [k \in 1 .. 4 |->
          LET start == points[k]
              end == points[nextCorner(k)]
              vx == end.x - start.x
              vy == end.y - start.y
          IN [index |-> k - 1, start |-> start, end |-> end,
              length |-> isqrt(vx * vx + vy * vy),
              dir |-> normalize(vx, vy)]]

\* modeling.js:80-83
pointAlongWall(wall, distance) ==
    LET safe == clamp(distance, 0, wall.length)
    IN [x |-> wall.start.x + RoundSigned(wall.dir.x * safe, DirScale),
        y |-> wall.start.y + RoundSigned(wall.dir.y * safe, DirScale)]

\* A raw field value as JavaScript holds it: a number, NaN (what NumberField
\* passes for text that is no number), a string of `digits` decimal digits
\* that reads as the number v, or a string that reads as no number
Num(v) == [tag |-> "number", digits |-> 0, v |-> v]
NaN == [tag |-> "NaN", digits |-> 0, v |-> 0]
Digits(d, v) == [tag |-> "digits", digits |-> d, v |-> v]
Word == [tag |-> "word", digits |-> 0, v |-> 0]

\* modeling.js:13  `Number(value) || 0`
numberOrZero(raw) == IF raw.tag \in {"number", "digits"} THEN raw.v ELSE 0

\* modeling.js:90  `sill + opening.height`: the sum of two numbers, NaN when
\* the right side is NaN, and the concatenation of the decimal text of the
\* left side with the right side when that is a string
plusRaw(n, raw) ==
    IF raw.tag = "number" THEN Num(n + raw.v)
    ELSE IF raw.tag = "digits" THEN Digits(raw.digits, n * (10 ^ raw.digits) + raw.v)
    ELSE IF raw.tag = "word" THEN Word
    ELSE NaN

\* modeling.js:85-92 on raw field values
rawOpeningBounds(opening, wall, r) ==
    LET width == clamp(numberOrZero(opening.width), 150, Max(wall.length - 100, 150))
        start == clamp(numberOrZero(opening.offset), 50, Max(wall.length - width - 50, 50))
        sill == clamp(numberOrZero(opening.sillHeight), 0, r.height - 100)
        top == clamp(numberOrZero(plusRaw(sill, opening.height)), sill + 100, r.height)
    IN [start |-> start, end |-> start + width, sill |-> sill, top |-> top]

\* modeling.js:85-92 on a stored opening whose fields are numbers
getOpeningBounds(opening, wall, r) ==
    rawOpeningBounds([offset |-> Num(opening.offset), width |-> Num(opening.width),
                      height |-> Num(opening.height), sillHeight |-> Num(opening.sillHeight)],
                     wall, r)

\* Scene3D.jsx:165-171, modeling.js:283-289, App.jsx:275-316: the sweep over
\* the sorted bounds; a full-height section before each opening that starts
\* after the cursor, the wall below the sill and above the top, and the rest
RECURSIVE carve(_, _, _, _, _)
carve(bounds, k, cursor, wall, r) ==
    IF k > Len(bounds)
    THEN (IF cursor < wall.length
          THEN <<[start |-> cursor, end |-> wall.length, z0 |-> 0, z1 |-> r.height]>>
          ELSE << >>)
    ELSE LET b == bounds[k]
         IN (IF b.start > cursor
             THEN <<[start |-> cursor, end |-> b.start, z0 |-> 0, z1 |-> r.height]>>
             ELSE << >>)
            \o (IF b.sill > 0
                THEN <<[start |-> b.start, end |-> b.end, z0 |-> 0, z1 |-> b.sill]>>
                ELSE << >>)
            \o (IF b.top < r.height
                THEN <<[start |-> b.start, end |-> b.end, z0 |-> b.top, z1 |-> r.height]>>
                ELSE << >>)
            \o carve(bounds, k + 1, b.end, wall, r)

\* Scene3D.jsx:158-172: the sections of one wall before the sliver filter
wallSections(openingList, wall, r) ==
    LET onWall == SelectSeq(openingList, LAMBDA opening : opening.wall = wall.index)
        wallOpenings == sortByStart([k \in 1 .. Len(onWall) |->
                                        getOpeningBounds(onWall[k], wall, r)])
    IN carve(wallOpenings, 1, 0, wall, r)

-----------------------------------------------------------------------------
(* modeling.js: plan projection, with the numbers of JavaScript as fractions *)

RECURSIVE gcd(_, _)
gcd(a, b) == IF b = 0 THEN a ELSE gcd(b, a % b)

\* The fraction n / d in lowest terms with a positive denominator (d # 0)
Frac(n, d) ==
    LET g == gcd(Abs(n), Abs(d))
        s == IF d < 0 THEN -1 ELSE 1
    IN [n |-> (s * n) \div g, d |-> (s * d) \div g]
Whole(v) == [n |-> v, d |-> 1]
FracAdd(a, b) ==
    LET g == gcd(a.d, b.d)
    IN Frac(a.n * (b.d \div g) + b.n * (a.d \div g), (a.d \div g) * b.d)
FracSub(a, b) == FracAdd(a, [n |-> -b.n, d |-> b.d])
FracMul(a, b) ==
    LET left == Frac(a.n, b.d)
        right == Frac(b.n, a.d)
    IN Frac(left.n * right.n, left.d * right.d)
FracDiv(a, b) == FracMul(a, Frac(b.d, b.n))
FracLess(a, b) == a.n * b.d < b.n * a.d
FracMin(a, b) == IF FracLess(b, a) THEN b ELSE a

\* Math.min(...values), Math.max(...values) on a sequence of four integers
MinOf(values) == Min(Min(values[1], values[2]), Min(values[3], values[4]))
MaxOf(values) == Max(Max(values[1], values[2]), Max(values[3], values[4]))

\* modeling.js:196  the padding
PlanPadding == 60

\* modeling.js:197-200
planScale_Unpadded(renderWidth, renderHeight, extentX, extentY) ==
    FracMin(FracDiv(renderWidth, Whole(Max(extentX, 1))),
            FracDiv(renderHeight, Whole(Max(extentY, 1))))
planScale_WidthOnly(renderWidth, renderHeight, extentX, extentY) ==
    FracDiv(FracSub(renderWidth, Whole(PlanPadding * 2)), Whole(Max(extentX, 1)))
planScale(renderWidth, renderHeight, extentX, extentY) ==
    FracMin(FracDiv(FracSub(renderWidth, Whole(PlanPadding * 2)), Whole(Max(extentX, 1))),
            FracDiv(FracSub(renderHeight, Whole(PlanPadding * 2)), Whole(Max(extentY, 1))))

\* modeling.js:185-212: the fields of the projection that project and
\* unproject read; canvas.ratio is window.devicePixelRatio || 1
getPlanProjection(r, canvas) ==
    LET walls == getWallSegments(r)
        xs == [k \in 1 .. 4 |-> walls[k].start.x]
        ys == [k \in 1 .. 4 |-> walls[k].start.y]
        renderWidth == Frac(canvas.width, canvas.ratio)
        renderHeight == Frac(canvas.height, canvas.ratio)
    IN [renderWidth |-> renderWidth, renderHeight |-> renderHeight,
        minX |-> MinOf(xs), maxX |-> MaxOf(xs), minY |-> MinOf(ys), maxY |-> MaxOf(ys),
        padding |-> PlanPadding,
        scale |-> planScale(renderWidth, renderHeight, MaxOf(xs) - MinOf(xs),
                            MaxOf(ys) - MinOf(ys))]

\* modeling.js:202-204
project_Unflipped(projection, point) ==
    [x |-> FracAdd(Whole(projection.padding),
                   FracMul(FracSub(point.x, Whole(projection.minX)), projection.scale)),
     y |-> FracAdd(Whole(projection.padding),
                   FracMul(FracSub(point.y, Whole(projection.minY)), projection.scale))]
project(projection, point) ==
    [x |-> FracAdd(Whole(projection.padding),
                   FracMul(FracSub(point.x, Whole(projection.minX)), projection.scale)),
     y |-> FracSub(FracSub(projection.renderHeight, Whole(projection.padding)),
                   FracMul(FracSub(point.y, Whole(projection.minY)), projection.scale))]

\* modeling.js:205-210
unproject(projection, point) ==
    [x |-> FracAdd(Whole(projection.minX),
                   FracDiv(FracSub(point.x, Whole(projection.padding)), projection.scale)),
     y |-> FracAdd(Whole(projection.minY),
                   FracDiv(FracSub(FracSub(projection.renderHeight, Whole(projection.padding)),
                                   point.y),
                           projection.scale))]

-----------------------------------------------------------------------------
(* App.jsx: hit tests of the pointer-down handler *)

\* Math.cos / Math.sin of a rotation that is a multiple of 90 degrees
cosDeg(deg) == CASE deg % 360 = 0 -> 1 [] deg % 360 = 180 -> -1 [] OTHER -> 0
sinDeg(deg) == CASE deg % 360 = 90 -> 1 [] deg % 360 = 270 -> -1 [] OTHER -> 0

\* App.jsx:81-90 (|local| <= size / 2 compared as 2 * |local| <= size)
pointInRotatedEquipment(point, item) ==
    LET cos == cosDeg(item.rotationDeg)
        sin == -sinDeg(item.rotationDeg)
        dx == point.x - item.x
        dy == point.y - item.y
        localX == dx * cos - dy * sin
        localY == dx * sin + dy * cos
    IN 2 * Abs(localX) <= item.width /\ 2 * Abs(localY) <= item.depth

\* App.jsx:92-100 compared with a threshold: distanceToSegment(p, a, b) <= limit.
\* Plan coordinates are multiples of 10 mm; the comparison is made exactly in
\* units of 10 mm: with t strictly inside (0, 1) the squared distance is
\* cross^2 / lengthSq.
withinSegment(point, start, end, limit) ==
    LET dx == (end.x - start.x) \div 10
        dy == (end.y - start.y) \div 10
        qx == (point.x - start.x) \div 10
        qy == (point.y - start.y) \div 10
        lim == limit \div 10
        lengthSq == IF dx * dx + dy * dy = 0 THEN 1 ELSE dx * dx + dy * dy
        dot == qx * dx + qy * dy
    IN IF dot <= 0 THEN qx * qx + qy * qy <= lim * lim
       ELSE IF dot >= lengthSq
       THEN (qx - dx) * (qx - dx) + (qy - dy) * (qy - dy) <= lim * lim
       ELSE Abs(qx * dy - qy * dx) <= isqrt(lim * lim * lengthSq)

\* The highest index of `hits`, or NULL: [...].reverse().find(hit)
LastHit_Lowest(hits) == IF hits = {} THEN NULL ELSE CHOOSE i \in hits : \A j \in hits : i <= j
LastHit(hits) == IF hits = {} THEN NULL ELSE CHOOSE i \in hits : \A j \in hits : j <= i

\* App.jsx:439-442
equipmentHit(point, list) ==
    LastHit({i \in Indices(list) :
                pointInRotatedEquipment(point, getMountedEquipmentDisplay(At(list, i), list))})

\* App.jsx:458-467
trayHit(point, trayList) ==
    LastHit({i \in Indices(trayList) :
                LET tray == TrayAt(trayList, i)
                    segments == getTraySegments(tray)
                IN \E k \in 1 .. Len(segments) :
                      withinSegment(point, segments[k].start, segments[k].end,
                                    Max(tray.width \div 2, 150))})

\* App.jsx:484-491: the point is on the control handle or on one of the two legs
pathHit(point, path) ==
    /\ path.tag = "path"
    /\ \/ withinSegment(point, path.control, path.control, 180)
       \/ withinSegment(point, path.from, path.control, 160)
       \/ withinSegment(point, path.control, path.to, 160)

\* App.jsx:481-492
connectionHit(point, connectionList, list, trayList) ==
    LastHit({i \in Indices(connectionList) :
                pathHit(point, getConnectionPath(connectionList[i + 1], list, trayList))})

\* App.jsx:511-519: the point is within 140 mm of the opening's span on its wall
openingSpanHit(point, wall, bounds) ==
    withinSegment(point, pointAlongWall(wall, bounds.start), pointAlongWall(wall, bounds.end), 140)

\* App.jsx:508-510
openingOnWall(point, opening, wall, r) ==
    openingSpanHit(point, wall, getOpeningBounds(opening, wall, r))

\* App.jsx:506-522
openingHit(point, openingList, r) ==
    LastHit({i \in Indices(openingList) :
                openingOnWall(point, openingList[i + 1],
                              getWallSegments(r)[openingList[i + 1].wall + 1], r)})

\* Math.round(v / 50) * 50
snap50_Unsnapped(v) == v
snap50(v) == ((2 * v + 50) \div 100) * 50

-----------------------------------------------------------------------------
(* modeling.js: the projection of the painted 3D view *)

\* An angle of the view is given by its cosine and its sine (Math.cos,
\* Math.sin), as fractions
Angle(c, s) == [cos |-> c, sin |-> s]

\* modeling.js:214-227: depth is the rotated coordinate that x and y do not use
project3D_DepthIsScreenY(vertex, metrics, view3d) ==
    LET dx == Whole(vertex.x - metrics.center.x)
        dy == Whole(vertex.y - metrics.center.y)
        dz == Whole(vertex.z - metrics.center.z)
        x1 == FracSub(FracMul(dx, view3d.yaw.cos), FracMul(dy, view3d.yaw.sin))
        y1 == FracAdd(FracMul(dx, view3d.yaw.sin), FracMul(dy, view3d.yaw.cos))
        y2 == FracSub(FracMul(y1, view3d.pitch.cos), FracMul(dz, view3d.pitch.sin))
    IN [x |-> FracAdd(Frac(metrics.canvasWidth, 2), FracMul(x1, view3d.zoom)),
        y |-> FracSub(Frac(metrics.canvasHeight * 72, 100), FracMul(y2, view3d.zoom)),
        depth |-> y2]
project3D(vertex, metrics, view3d) ==
    LET cosY == view3d.yaw.cos
        sinY == view3d.yaw.sin
        cosP == view3d.pitch.cos
        sinP == view3d.pitch.sin
        dx == Whole(vertex.x - metrics.center.x)
        dy == Whole(vertex.y - metrics.center.y)
        dz == Whole(vertex.z - metrics.center.z)
        x1 == FracSub(FracMul(dx, cosY), FracMul(dy, sinY))
        y1 == FracAdd(FracMul(dx, sinY), FracMul(dy, cosY))
        y2 == FracSub(FracMul(y1, cosP), FracMul(dz, sinP))
        depth == FracAdd(FracMul(y1, sinP), FracMul(dz, cosP))
    IN [x |-> FracAdd(Frac(metrics.canvasWidth, 2), FracMul(x1, view3d.zoom)),
        y |-> FracSub(Frac(metrics.canvasHeight * 72, 100), FracMul(y2, view3d.zoom)),
        depth |-> depth]

-----------------------------------------------------------------------------
(* App.jsx: editor state and the effects that follow every state change *)

NoSelection == [kind |-> "none", index |-> NULL]
Target(k, i) == [kind |-> k, index |-> i]

\* The empty <select> value ""
EmptyRef == [kind |-> "", index |-> NULL]

\* App.jsx:42 (fromRef, toRef; routeHeight in 1/1000 mm)
defaultConnection == [fromRef |-> EmptyRef, toRef |-> EmptyRef, routeHeight |-> 2600000]

\* App.jsx:171
idleInteraction == [dragging |-> FALSE, kind |-> "none", index |-> NULL, offsetX |-> 0, offsetY |-> 0]

\* App.jsx:173-176: the option values, equipment first, then trays
connectableOptions(list, trayList) ==
    [k \in 1 .. Len(list) |-> Ref("equipment", k - 1)]
        \o [k \in 1 .. Len(trayList) |-> Ref("tray", k - 1)]

SeqRange(q) == {q[k] : k \in 1 .. Len(q)}

\* values.find((value) => value !== fromRef) || fromRef
firstOther(values, fromRef) ==
    LET others == {k \in 1 .. Len(values) : values[k] # fromRef}
    IN IF others = {} THEN fromRef
       ELSE values[CHOOSE k \in others : \A j \in others : k <= j]

\* App.jsx:194-206: runs after every change of equipment or trays
refreshConnectionDraft(draft, list, trayList) ==
    LET values == connectableOptions(list, trayList)
    IN IF Len(values) = 0 THEN [draft EXCEPT !.fromRef = EmptyRef, !.toRef = EmptyRef]
       ELSE LET from == IF draft.fromRef \in SeqRange(values) THEN draft.fromRef ELSE values[1]
                to == IF draft.toRef \notin SeqRange(values) \/ draft.toRef = from
                      THEN (IF Len(values) > 1 THEN firstOther(values, from) ELSE from)
                      ELSE draft.toRef
            IN [draft EXCEPT !.fromRef = from, !.toRef = to]

\* App.jsx:208-222: a selection whose entity is gone is cleared
validSelection(sel, list, trayList, openingList, connectionList) ==
    IF sel = NoSelection THEN sel
    ELSE LET n == CASE sel.kind = "equipment" -> Len(list)
                    [] sel.kind = "tray" -> Len(trayList)
                    [] sel.kind = "opening" -> Len(openingList)
                    [] sel.kind = "connection" -> Len(connectionList)
                    [] OTHER -> 0
         IN IF sel.index \in 0 .. (n - 1) THEN sel ELSE NoSelection

\* App.jsx:102-108
parseRef(ref) == IF ref = EmptyRef THEN NullRef ELSE ref

\* App.jsx:177-180: the indices offered by the Rack Cabinet select
cabinetOptions(list) == {i \in Indices(list) : At(list, i).type = "cabinet"}

\* A call of a pure function and its result: no call yet, no result yet
NoCall == [fn |-> "none"]
NoResult == [tag |-> "none"]
Result(v) == [tag |-> "value", value |-> v]

\* History of the last handler: its name, its argument, and for removeEquipment
\* the indices it removed; handlers no property singles out share OtherOp
Op(name, arg) == [op |-> name, arg |-> arg, removed |-> {}]
OtherOp == Op("other", NULL)

\* history: a pointer event and the world point under the pointer
PointerOp(name, point) == [op |-> name, arg |-> NULL, removed |-> {}, point |-> point]

\* The editor as App.jsx:158-168 constructs it
InitEditor ==
    /\ equipment = << >>
    /\ trays = << >>
    /\ connections = << >>
    /\ openings = << >>
    /\ room = defaultRoom
    /\ selectedTarget = NoSelection
    /\ equipmentDraft = defaultEquipment
    /\ connectionDraft = defaultConnection
    /\ interaction = idleInteraction
    /\ lastOp = Op("init", NULL)

Init ==
    /\ InitEditor
    /\ fnIn = NoCall
    /\ fnOut = NoResult

-----------------------------------------------------------------------------
(* App.jsx: the hardware draft form *)

\* App.jsx:994 with the effect of App.jsx:182-192
SetDraftType(t) ==
    /\ t # equipmentDraft.type
    /\ LET preset == EQUIPMENT_PRESETS[t]
       IN equipmentDraft' =
            [equipmentDraft EXCEPT
                !.type = t, !.width = preset.width, !.depth = preset.depth,
                !.height = preset.height,
                !.installMode = IF preset.mountable THEN @ ELSE "floor",
                !.mountTarget = IF preset.mountable THEN @ ELSE NULL]
    /\ lastOp' = OtherOp
    /\ UNCHANGED <<equipment, trays, connections, openings, room, selectedTarget,
                   connectionDraft, interaction, fnIn, fnOut>>

\* App.jsx:1001-1006
SetDraftInstallMode(mode) ==
    /\ EQUIPMENT_PRESETS[equipmentDraft.type].mountable
    /\ mode # equipmentDraft.installMode
    /\ equipmentDraft' =
         [equipmentDraft EXCEPT !.installMode = mode,
                                !.mountTarget = IF mode = "rack" THEN @ ELSE NULL]
    /\ lastOp' = OtherOp
    /\ UNCHANGED <<equipment, trays, connections, openings, room, selectedTarget,
                   connectionDraft, interaction, fnIn, fnOut>>

\* App.jsx:1007-1014
SetDraftMountTarget(target) ==
    /\ EQUIPMENT_PRESETS[equipmentDraft.type].mountable
    /\ equipmentDraft.installMode = "rack"
    /\ target \in cabinetOptions(equipment) \cup {NULL}
    /\ target # equipmentDraft.mountTarget
    /\ equipmentDraft' = [equipmentDraft EXCEPT !.mountTarget = target]
    /\ lastOp' = OtherOp
    /\ UNCHANGED <<equipment, trays, connections, openings, room, selectedTarget,
                   connectionDraft, interaction, fnIn, fnOut>>

\* App.jsx:1035-1039: the Add Hardware button is not disabled
addHardwareEnabled(draft) ==
    ~(EQUIPMENT_PRESETS[draft.type].mountable /\ draft.installMode = "rack"
        /\ draft.mountTarget = NULL)

\* App.jsx:622 and 840
presetRackUnits(preset) ==
    IF preset.rackUnits # 0 THEN preset.rackUnits
    ELSE Max(1, RoundDiv(preset.height, RU_HEIGHT))

\* App.jsx:624
rackCapacityOf(cabinet) ==
    IF cabinet.rackUnits # 0 /\ cabinet.rackUnits # NULL THEN cabinet.rackUnits
    ELSE Max(1, RoundDiv(cabinet.height, RU_HEIGHT))

\* App.jsx:625
exceedsCapacity_Never(rackStart, rackUnits, rackCapacity) == FALSE
exceedsCapacity(rackStart, rackUnits, rackCapacity) == rackStart + rackUnits - 1 > rackCapacity

\* App.jsx:621
isCabinet_Any(cabinet) == TRUE
isCabinet(cabinet) == ~IsMissing(cabinet) /\ cabinet.type = "cabinet"

\* App.jsx:608-616, 628-636, 641-644: the stored item (the draft's fields that
\* are read back later, plus the mount fields)
newItem(draft, mountedIn, rackStart, rackUnits) ==
    [type |-> draft.type, x |-> draft.x, y |-> draft.y, width |-> draft.width,
     depth |-> draft.depth, height |-> draft.height, rotationDeg |-> draft.rotationDeg,
     mountedIn |-> mountedIn, rackStart |-> rackStart, rackUnits |-> rackUnits]

\* App.jsx:628-636 and 841-848: size and position taken from the cabinet
fitIntoCabinet(item, cabinet, preset) ==
    [item EXCEPT !.width = Max(Min(cabinet.width - 120, 482), 200),
                 !.depth = Max(Min(cabinet.depth - 180, preset.depth), 180),
                 !.x = cabinet.x, !.y = cabinet.y, !.rotationDeg = cabinet.rotationDeg]

\* App.jsx:606-645: the item addEquipment appends, or rejected
addEquipmentResult(draft, list) ==
    LET preset == EQUIPMENT_PRESETS[draft.type]
    IN IF draft.type = "cabinet"
       THEN [ok |-> TRUE, item |-> newItem(draft, NULL, NULL, preset.rackUnits)]
       ELSE IF preset.mountable /\ draft.installMode = "rack" /\ draft.mountTarget # NULL
       THEN LET cabinetIndex == draft.mountTarget
                cabinet == At(list, cabinetIndex)
                rackUnits == presetRackUnits(preset)
                rackStart == getNextRackStart(list, cabinetIndex, rackUnits)
                rackCapacity == rackCapacityOf(cabinet)
            IN IF isCabinet(cabinet)
               THEN IF exceedsCapacity(rackStart, rackUnits, rackCapacity)
                    THEN [ok |-> FALSE, item |-> UndefinedItem]
                    ELSE [ok |-> TRUE,
                          item |-> fitIntoCabinet(
                                      [newItem(draft, cabinetIndex, rackStart, rackUnits)
                                          EXCEPT !.height = rackUnits * RU_HEIGHT],
                                      cabinet, preset)]
               ELSE [ok |-> FALSE, item |-> UndefinedItem]
       ELSE [ok |-> TRUE, item |-> newItem(draft, NULL, NULL, preset.rackUnits)]

\* App.jsx:606-649 followed by the effects of App.jsx:194-222; the list is
\* kept below `limit` items
AddEquipmentUpTo(limit) ==
    /\ addHardwareEnabled(equipmentDraft)
    /\ LET result == addEquipmentResult(equipmentDraft, equipment)
       IN IF result.ok
          THEN /\ Len(equipment) < limit
               /\ equipment' = Append(equipment, result.item)
               /\ connectionDraft' = refreshConnectionDraft(connectionDraft, equipment', trays)
               /\ lastOp' = Op("addEquipment", Len(equipment))
          ELSE /\ UNCHANGED <<equipment, connectionDraft>>
               /\ lastOp' = Op("addEquipment", NULL)
    /\ UNCHANGED <<trays, connections, openings, room, selectedTarget, equipmentDraft,
                   interaction, fnIn, fnOut>>

AddEquipment == AddEquipmentUpTo(MaxEquipment)

-----------------------------------------------------------------------------
(* App.jsx: trays, openings, connections *)

\* App.jsx:651-654
AddTray ==
    /\ Len(trays) < MaxTrays
    /\ trays' = Append(trays, defaultTray)
    /\ connectionDraft' = refreshConnectionDraft(connectionDraft, equipment, trays')
    /\ lastOp' = OtherOp
    /\ UNCHANGED <<equipment, connections, openings, room, selectedTarget, equipmentDraft,
                   interaction, fnIn, fnOut>>

\* App.jsx:601-604
AddOpening ==
    /\ Len(openings) < MaxOpenings
    /\ openings' = Append(openings,
                          [defaultOpening EXCEPT
                              !.sillHeight = IF defaultOpening.type = "door" THEN 0 ELSE @])
    /\ lastOp' = OtherOp
    /\ UNCHANGED <<equipment, trays, connections, room, selectedTarget, equipmentDraft,
                   connectionDraft, interaction, fnIn, fnOut>>

\* App.jsx:1068-1073: the From / To selects offer the connectable options
SetConnectionDraftRef(field, ref) ==
    /\ ref \in SeqRange(connectableOptions(equipment, trays))
    /\ field \in {"fromRef", "toRef"}
    /\ connectionDraft[field] # ref
    /\ connectionDraft' = [connectionDraft EXCEPT ![field] = ref]
    /\ lastOp' = OtherOp
    /\ UNCHANGED <<equipment, trays, connections, openings, room, selectedTarget,
                   equipmentDraft, interaction, fnIn, fnOut>>

\* App.jsx:661-663
anchorsResolved_Unchecked(fromAnchor, toAnchor) == TRUE
anchorsResolved(fromAnchor, toAnchor) == fromAnchor.tag = "point" /\ toAnchor.tag = "point"

\* App.jsx:656-675: the connection addConnection appends, or rejected
addConnectionResult(draft, list, trayList) ==
    LET fromRef == parseRef(draft.fromRef)
        toRef == parseRef(draft.toRef)
        fromAnchor == getConnectionAnchor(fromRef, list, trayList)
        toAnchor == getConnectionAnchor(toRef, list, trayList)
    IN IF fromRef = NullRef \/ toRef = NullRef THEN [ok |-> FALSE]
       ELSE IF fromRef.kind = toRef.kind /\ fromRef.index = toRef.index THEN [ok |-> FALSE]
       ELSE IF ~anchorsResolved(fromAnchor, toAnchor) THEN [ok |-> FALSE]
       ELSE [ok |-> TRUE,
             item |-> [fromKind |-> fromRef.kind, fromIndex |-> fromRef.index,
                       toKind |-> toRef.kind, toIndex |-> toRef.index,
                       controlX |-> toAnchor.x, controlY |-> fromAnchor.y,
                       routeHeight |-> draft.routeHeight]]

\* App.jsx:1077: the Add Connection button is not disabled
addConnectionEnabled(list, trayList) == Len(connectableOptions(list, trayList)) >= 2

\* App.jsx:656-677
AddConnection ==
    /\ addConnectionEnabled(equipment, trays)
    /\ LET result == addConnectionResult(connectionDraft, equipment, trays)
       IN IF result.ok
          THEN /\ Len(connections) < MaxConnections
               /\ connections' = Append(connections, result.item)
               /\ lastOp' = Op("addConnection", Len(connections))
          ELSE /\ UNCHANGED connections
               /\ lastOp' = Op("addConnection", NULL)
    /\ UNCHANGED <<equipment, trays, openings, room, selectedTarget, equipmentDraft,
                   connectionDraft, interaction, fnIn, fnOut>>

-----------------------------------------------------------------------------
(* App.jsx: removal *)

\* App.jsx:680-688
removedIndexesOf_OnlyItem(list, index) == {index}
removedIndexesOf(list, index) ==
    {index} \cup (IF At(list, index).type = "cabinet"
                  THEN {j \in Indices(list) : At(list, j).mountedIn = index}
                  ELSE {})

\* App.jsx:699-702 and 717, 721: the index after the removed ones before it are gone
shiftIndex_ByOne(i, removed) == IF RemovedBefore(removed, i) > 0 THEN i - 1 ELSE i
shiftIndex(i, removed) == i - RemovedBefore(removed, i)

\* App.jsx:692-703
relinkItem_KeepIndex(item, removed) ==
    IF ~HasMount(item) THEN item
    ELSE IF item.mountedIn \in removed
    THEN [item EXCEPT !.mountedIn = NULL, !.rackStart = NULL]
    ELSE item
relinkItem(item, removed) ==
    IF ~HasMount(item) THEN item
    ELSE IF item.mountedIn \in removed
    THEN [item EXCEPT !.mountedIn = NULL, !.rackStart = NULL]
    ELSE [item EXCEPT !.mountedIn = shiftIndex(item.mountedIn, removed)]

\* App.jsx:708-712
touchesRemoved_FromOnly(c, kind, removed) == c.fromKind = kind /\ c.fromIndex \in removed
touchesRemoved(c, kind, removed) ==
    \/ c.fromKind = kind /\ c.fromIndex \in removed
    \/ c.toKind = kind /\ c.toIndex \in removed

\* App.jsx:705-724 and 735-742
relinkConnections(connectionList, kind, removed) ==
    LET normalized == [k \in 1 .. Len(connectionList) |-> normalizeConnection(connectionList[k])]
        kept == SelectSeq(normalized, LAMBDA c : ~touchesRemoved(c, kind, removed))
    IN [k \in 1 .. Len(kept) |->
          [kept[k] EXCEPT
              !.fromIndex = IF kept[k].fromKind = kind THEN shiftIndex(@, removed) ELSE @,
              !.toIndex = IF kept[k].toKind = kind THEN shiftIndex(@, removed) ELSE @]]

\* App.jsx:725-730, 743-747, 752-756, 761-765
relinkSelection(sel, kind, removed) ==
    IF sel = NoSelection \/ sel.kind # kind THEN sel
    ELSE IF sel.index \in removed THEN NoSelection
    ELSE [sel EXCEPT !.index = shiftIndex(@, removed)]

\* App.jsx:679-731 followed by the effects of App.jsx:194-222
RemoveEquipment(index) ==
    /\ index \in Indices(equipment)
    /\ LET removed == removedIndexesOf(equipment, index)
           kept == DropIndexes(equipment, removed)
       IN /\ equipment' = [k \in 1 .. Len(kept) |-> relinkItem(kept[k], removed)]
          /\ connections' = relinkConnections(connections, "equipment", removed)
          /\ selectedTarget' = validSelection(relinkSelection(selectedTarget, "equipment", removed),
                                              equipment', trays, openings, connections')
          /\ lastOp' = [op |-> "removeEquipment", arg |-> index, removed |-> removed]
    /\ connectionDraft' = refreshConnectionDraft(connectionDraft, equipment', trays)
    /\ UNCHANGED <<trays, openings, room, equipmentDraft, interaction, fnIn, fnOut>>

\* App.jsx:733-748
RemoveTray(index) ==
    /\ index \in Indices(trays)
    /\ trays' = DropIndexes(trays, {index})
    /\ connections' = relinkConnections(connections, "tray", {index})
    /\ selectedTarget' = validSelection(relinkSelection(selectedTarget, "tray", {index}),
                                        equipment, trays', openings, connections')
    /\ connectionDraft' = refreshConnectionDraft(connectionDraft, equipment, trays')
    /\ lastOp' = Op("removeTray", index)
    /\ UNCHANGED <<equipment, openings, room, equipmentDraft, interaction, fnIn, fnOut>>

\* App.jsx:750-757
RemoveOpening(index) ==
    /\ index \in Indices(openings)
    /\ openings' = DropIndexes(openings, {index})
    /\ selectedTarget' = validSelection(relinkSelection(selectedTarget, "opening", {index}),
                                        equipment, trays, openings', connections)
    /\ lastOp' = Op("removeOpening", index)
    /\ UNCHANGED <<equipment, trays, connections, room, equipmentDraft, connectionDraft,
                   interaction, fnIn, fnOut>>

\* App.jsx:759-766
RemoveConnection(index) ==
    /\ index \in Indices(connections)
    /\ connections' = DropIndexes(connections, {index})
    /\ selectedTarget' = validSelection(relinkSelection(selectedTarget, "connection", {index}),
                                        equipment, trays, openings, connections')
    /\ lastOp' = Op("removeConnection", index)
    /\ UNCHANGED <<equipment, trays, openings, room, equipmentDraft, connectionDraft,
                   interaction, fnIn, fnOut>>

-----------------------------------------------------------------------------
(* App.jsx: selection and the properties panel *)

EntityCount(kind) ==
    CASE kind = "equipment" -> Len(equipment)
      [] kind = "tray" -> Len(trays)
      [] kind = "opening" -> Len(openings)
      [] kind = "connection" -> Len(connections)

\* App.jsx:953 and 1267: a click on an asset row or a list label
Select(kind, index) ==
    /\ index \in 0 .. (EntityCount(kind) - 1)
    /\ selectedTarget # Target(kind, index)
    /\ selectedTarget' = Target(kind, index)
    /\ lastOp' = OtherOp
    /\ UNCHANGED <<equipment, trays, connections, openings, room, equipmentDraft,
                   connectionDraft, interaction, fnIn, fnOut>>

\* App.jsx:818-851: a new Asset Type for an item
retypeItem(item, value, list) ==
    LET preset == EQUIPMENT_PRESETS[value]
        base == [item EXCEPT !.type = value, !.width = preset.width, !.depth = preset.depth,
                             !.height = preset.height, !.rackUnits = preset.rackUnits]
    IN IF value = "cabinet" \/ ~preset.mountable
       THEN [base EXCEPT !.mountedIn = NULL, !.rackStart = NULL]
       ELSE IF HasMount(item)
       THEN LET cabinet == At(list, item.mountedIn)
                rackUnits == presetRackUnits(preset)
                sized == [base EXCEPT !.rackUnits = rackUnits, !.height = rackUnits * RU_HEIGHT]
            IN IF ~IsMissing(cabinet) /\ cabinet.type = "cabinet"
               THEN fitIntoCabinet(sized, cabinet, preset)
               ELSE sized
       ELSE base

\* Values typed into the position fields of the properties panel
EditCoords == {1200, 2400}

\* Values typed into the Width and Depth fields of the properties panel: the
\* least the fields offer (min="200") and a size larger than the presets
EditSizes == {200, 1200}

\* App.jsx:1158 (type) and 1184-1189 (x, y, width, depth: offered for items
\* that are not mounted); updateSelectedField, App.jsx:809-863
UpdateEquipmentField(field, value) ==
    /\ selectedTarget.kind = "equipment"
    /\ LET index == selectedTarget.index
           item == At(equipment, index)
       IN /\ ~IsMissing(item)
          /\ \/ field = "type" /\ value \in EquipmentTypes /\ value # item.type
             \/ field \in {"x", "y"} /\ value \in EditCoords /\ ~HasMount(item)
             \/ field \in {"width", "depth"} /\ value \in EditSizes /\ ~HasMount(item)
          /\ equipment' =
               [equipment EXCEPT ![index + 1] =
                   IF field = "type" THEN retypeItem(item, value, equipment)
                   ELSE [item EXCEPT ![field] = value]]
          /\ lastOp' = Op(IF field = "type" THEN "retype" ELSE "editEquipment", index)
    /\ connectionDraft' = refreshConnectionDraft(connectionDraft, equipment', trays)
    /\ UNCHANGED <<trays, connections, openings, room, selectedTarget, equipmentDraft,
                   interaction, fnIn, fnOut>>

\* App.jsx:865-867 with the Start X / Start Y fields of App.jsx:1200-1201
UpdateTrayField(field, value) ==
    /\ selectedTarget.kind = "tray"
    /\ selectedTarget.index \in Indices(trays)
    /\ field \in {"x", "y"} /\ value \in EditCoords
    /\ trays' = [trays EXCEPT ![selectedTarget.index + 1][field] = value]
    /\ connectionDraft' = refreshConnectionDraft(connectionDraft, equipment, trays')
    /\ lastOp' = OtherOp
    /\ UNCHANGED <<equipment, connections, openings, room, selectedTarget, equipmentDraft,
                   interaction, fnIn, fnOut>>

\* App.jsx:869-871 with the Control X / Control Y fields of App.jsx:1239-1240
UpdateConnectionField(field, value) ==
    /\ selectedTarget.kind = "connection"
    /\ selectedTarget.index \in Indices(connections)
    /\ field \in {"controlX", "controlY"} /\ value \in EditCoords
    /\ connections' =
         [connections EXCEPT ![selectedTarget.index + 1] =
             [normalizeConnection(@) EXCEPT ![field] = value]]
    /\ lastOp' = OtherOp
    /\ UNCHANGED <<equipment, trays, openings, room, selectedTarget, equipmentDraft,
                   connectionDraft, interaction, fnIn, fnOut>>

\* App.jsx:873 with the Offset field of App.jsx:1222
UpdateOpeningField(field, value) ==
    /\ selectedTarget.kind = "opening"
    /\ selectedTarget.index \in Indices(openings)
    /\ field = "offset" /\ value \in EditCoords
    /\ openings' = [openings EXCEPT ![selectedTarget.index + 1][field] = value]
    /\ lastOp' = OtherOp
    /\ UNCHANGED <<equipment, trays, connections, room, selectedTarget, equipmentDraft,
                   connectionDraft, interaction, fnIn, fnOut>>

-----------------------------------------------------------------------------
(* App.jsx: the room form *)

RoomFields ==
    {"width", "length", "height", "floorElevation", "floorTileSize", "southTiltDeg",
     "eastTiltDeg"}

\* Numbers typed into a room field (tilts in whole degrees)
RoomInputs == {-30000, -21, 0, 20, 2199, 2200, 25000}

\* App.jsx:966-972: the value each room field stores for a number typed in
roomFieldValue_AsTyped(field, value) == value
roomFieldValue(field, value) ==
    IF field \in {"width", "length"} THEN Max(value, 1000)
    ELSE IF field = "height" THEN Max(value, 2200)
    ELSE IF field = "floorElevation" THEN Max(value, 0)
    ELSE IF field = "floorTileSize" THEN Max(value, 100)
    ELSE clamp(value, -20, 20)

\* App.jsx:966-972
UpdateRoomField(field, value) ==
    /\ room' = [room EXCEPT ![field] = roomFieldValue(field, value)]
    /\ lastOp' = Op("updateRoom", field)
    /\ UNCHANGED <<equipment, trays, connections, openings, selectedTarget, equipmentDraft,
                   connectionDraft, interaction, fnIn, fnOut>>

-----------------------------------------------------------------------------
(* App.jsx: pointer handlers of the 2D plan *)

\* World points under the pointer (the plan projection is onto: every world
\* point is the image of a canvas point)
PointerPoints ==
    {[x |-> 1200, y |-> 1800],   \* on an item at the default position
     [x |-> 2400, y |-> 1800],   \* on an item moved to x = 2400
     [x |-> 1000, y |-> 500],    \* on the default tray
     [x |-> 1300, y |-> 0],      \* on the default door
     [x |-> 4000, y |-> 4000]}   \* on nothing

\* App.jsx:444-456: an item that is not mounted starts a drag
equipmentGrab_AlwaysDrag(point, eq, sourceItem) ==
    [sel |-> Target("equipment", eq),
     ref |-> [dragging |-> TRUE, kind |-> "equipment", index |-> eq,
              offsetX |-> point.x - sourceItem.x, offsetY |-> point.y - sourceItem.y]]
equipmentGrab(point, eq, sourceItem) ==
    IF HasMount(sourceItem)
    THEN [sel |-> Target("equipment", eq), ref |-> idleInteraction]
    ELSE [sel |-> Target("equipment", eq),
          ref |-> [dragging |-> TRUE, kind |-> "equipment", index |-> eq,
                   offsetX |-> point.x - sourceItem.x, offsetY |-> point.y - sourceItem.y]]

\* App.jsx:468-478
trayGrab(point, tr, tray) ==
    [sel |-> Target("tray", tr),
     ref |-> [dragging |-> TRUE, kind |-> "tray", index |-> tr,
              offsetX |-> point.x - tray.x, offsetY |-> point.y - tray.y]]

\* App.jsx:493-503
connectionGrab(point, co, path) ==
    [sel |-> Target("connection", co),
     ref |-> [dragging |-> TRUE, kind |-> "connection", index |-> co,
              offsetX |-> point.x - path.control.x, offsetY |-> point.y - path.control.y]]

\* App.jsx:437-532: the hit tests in their order, given the topmost hit of each kind
pointerDownTarget(point, eq, tr, co, op) ==
    IF eq # NULL THEN equipmentGrab(point, eq, At(equipment, eq))
    ELSE IF tr # NULL THEN trayGrab(point, tr, TrayAt(trays, tr))
    ELSE IF co # NULL
    THEN connectionGrab(point, co, getConnectionPath(connections[co + 1], equipment, trays))
    ELSE IF op # NULL THEN [sel |-> Target("opening", op), ref |-> idleInteraction]
    ELSE [sel |-> NoSelection, ref |-> idleInteraction]

\* App.jsx:437-532
pointerDownResult(point) ==
    pointerDownTarget(point, equipmentHit(point, equipment), trayHit(point, trays),
                      connectionHit(point, connections, equipment, trays),
                      openingHit(point, openings, room))

PointerDown(point) ==
    /\ LET result == pointerDownResult(point)
       IN /\ selectedTarget' = result.sel
          /\ interaction' = result.ref
    /\ lastOp' = PointerOp("pointerDown", point)
    /\ UNCHANGED <<equipment, trays, connections, openings, room, equipmentDraft,
                   connectionDraft, fnIn, fnOut>>

\* App.jsx:534-579
PointerMove(point) ==
    /\ interaction.dragging /\ interaction.index # NULL
    /\ LET nx == snap50(point.x - interaction.offsetX)
           ny == snap50(point.y - interaction.offsetY)
           at == interaction.index + 1
       IN \/ /\ interaction.kind = "equipment"
             /\ equipment' = [k \in 1 .. Len(equipment) |->
                                IF k = at THEN [equipment[k] EXCEPT !.x = nx, !.y = ny]
                                ELSE equipment[k]]
             /\ connectionDraft' = refreshConnectionDraft(connectionDraft, equipment', trays)
             /\ UNCHANGED <<trays, connections>>
          \/ /\ interaction.kind = "tray"
             /\ trays' = [k \in 1 .. Len(trays) |->
                            IF k = at THEN [trays[k] EXCEPT !.x = nx, !.y = ny] ELSE trays[k]]
             /\ connectionDraft' = refreshConnectionDraft(connectionDraft, equipment, trays')
             /\ UNCHANGED <<equipment, connections>>
          \/ /\ interaction.kind = "connection"
             /\ connections' = [k \in 1 .. Len(connections) |->
                                  IF k = at
                                  THEN [normalizeConnection(connections[k])
                                           EXCEPT !.controlX = nx, !.controlY = ny]
                                  ELSE connections[k]]
             /\ UNCHANGED <<equipment, trays, connectionDraft>>
    /\ lastOp' = PointerOp("pointerMove", point)
    /\ UNCHANGED <<openings, room, selectedTarget, equipmentDraft, interaction, fnIn, fnOut>>

\* App.jsx:581-583
PointerUp ==
    /\ interaction # idleInteraction
    /\ interaction' = idleInteraction
    /\ lastOp' = Op("pointerUp", NULL)
    /\ UNCHANGED <<equipment, trays, connections, openings, room, selectedTarget,
                   equipmentDraft, connectionDraft, fnIn, fnOut>>

-----------------------------------------------------------------------------
(* The editor *)

Next ==
    \/ \E t \in EquipmentTypes : SetDraftType(t)
    \/ \E mode \in {"floor", "rack"} : SetDraftInstallMode(mode)
    \/ \E target \in Indices(equipment) \cup {NULL} : SetDraftMountTarget(target)
    \/ AddEquipment
    \/ AddTray
    \/ AddOpening
    \/ \E field \in {"fromRef", "toRef"} :
          \E ref \in SeqRange(connectableOptions(equipment, trays)) :
             SetConnectionDraftRef(field, ref)
    \/ AddConnection
    \/ \E index \in Indices(equipment) : RemoveEquipment(index)
    \/ \E index \in Indices(trays) : RemoveTray(index)
    \/ \E index \in Indices(openings) : RemoveOpening(index)
    \/ \E index \in Indices(connections) : RemoveConnection(index)
    \/ \E kind \in {"equipment", "tray", "opening", "connection"} :
          \E index \in 0 .. (EntityCount(kind) - 1) : Select(kind, index)
    \/ \E value \in EquipmentTypes : UpdateEquipmentField("type", value)
    \/ \E field \in {"x", "y"} : \E value \in EditCoords : UpdateEquipmentField(field, value)
    \/ \E field \in {"width", "depth"} : \E value \in EditSizes :
          UpdateEquipmentField(field, value)
    \/ \E field \in {"x", "y"} : \E value \in EditCoords : UpdateTrayField(field, value)
    \/ \E field \in {"controlX", "controlY"} : \E value \in EditCoords :
          UpdateConnectionField(field, value)
    \/ \E value \in EditCoords : UpdateOpeningField("offset", value)
    \/ \E point \in PointerPoints : PointerDown(point)
    \/ \E point \in PointerPoints : PointerMove(point)
    \/ PointerUp
    \/ \E field \in RoomFields : \E value \in RoomInputs : UpdateRoomField(field, value)

Spec == Init /\ [][Next]_vars

-----------------------------------------------------------------------------
(* Sessions: the editor driven through the handlers of one feature, with the *)
(* inputs of that feature.  Every step of a session is a step of Next.       *)

\* Rack session: the hardware form, Add Hardware, Remove, the asset list and
\* the Asset Type field
RackTypes == {"cabinet", "crac", "switch", "ups"}

NextRack ==
    \/ \E t \in RackTypes : SetDraftType(t)
    \/ \E mode \in {"floor", "rack"} : SetDraftInstallMode(mode)
    \/ \E target \in Indices(equipment) \cup {NULL} : SetDraftMountTarget(target)
    \/ AddEquipment
    \/ \E index \in Indices(equipment) : RemoveEquipment(index)
    \/ \E index \in Indices(equipment) : Select("equipment", index)
    \/ \E value \in RackTypes : UpdateEquipmentField("type", value)

SpecRack == Init /\ [][NextRack]_vars

\* Plan session: the rack session with three types, the X Position field and
\* a drag of the item under the pointer from the default position to x = 2400
PlanTypes == {"cabinet", "crac", "switch"}
ItemGrabPoint == [x |-> 1200, y |-> 1800]
ItemDropPoint == [x |-> 2400, y |-> 1800]

NextPlan ==
    \/ \E t \in PlanTypes : SetDraftType(t)
    \/ \E mode \in {"floor", "rack"} : SetDraftInstallMode(mode)
    \/ \E target \in Indices(equipment) \cup {NULL} : SetDraftMountTarget(target)
    \/ AddEquipment
    \/ \E index \in Indices(equipment) : RemoveEquipment(index)
    \/ \E index \in Indices(equipment) : Select("equipment", index)
    \/ \E value \in PlanTypes : UpdateEquipmentField("type", value)
    \/ \E value \in {ItemDropPoint.x} : UpdateEquipmentField("x", value)
    \/ \E point \in {ItemGrabPoint} : PointerDown(point)
    \/ \E point \in {ItemDropPoint} : PointerMove(point)
    \/ PointerUp

SpecPlan == Init /\ [][NextPlan]_vars

\* Link session: equipment, trays and connections are added and removed, a
\* tray is dragged and edited, an item is retyped
MaxLinkedEquipment == 2
LinkTypes == {"cabinet", "switch"}
TrayGrabPoint == [x |-> 1000, y |-> 500]
TrayDropPoint == [x |-> 1700, y |-> 500]

NextLinks ==
    \/ \E t \in LinkTypes : SetDraftType(t)
    \/ \E mode \in {"floor", "rack"} : SetDraftInstallMode(mode)
    \/ \E target \in Indices(equipment) \cup {NULL} : SetDraftMountTarget(target)
    \/ AddEquipmentUpTo(MaxLinkedEquipment)
    \/ AddTray
    \/ \E field \in {"fromRef", "toRef"} :
          \E ref \in SeqRange(connectableOptions(equipment, trays)) :
             SetConnectionDraftRef(field, ref)
    \/ AddConnection
    \/ \E index \in Indices(equipment) : RemoveEquipment(index)
    \/ \E index \in Indices(trays) : RemoveTray(index)
    \/ \E index \in Indices(connections) : RemoveConnection(index)
    \/ \E index \in Indices(equipment) : Select("equipment", index)
    \/ \E value \in LinkTypes : UpdateEquipmentField("type", value)
    \/ \E point \in {TrayGrabPoint} : PointerDown(point)
    \/ \E point \in {TrayDropPoint} : PointerMove(point)
    \/ PointerUp
    \/ \E value \in {TrayDropPoint.x - TrayGrabPoint.x + defaultTray.x} : UpdateTrayField("x", value)

SpecLinks == Init /\ [][NextLinks]_vars

-----------------------------------------------------------------------------
(* Rack ranges *)

\* The rack units [rackStart, rackStart + rackUnits - 1] an item occupies
RackRange(item) == item.rackStart .. (item.rackStart + item.rackUnits - 1)

\* Items i and j are distinct items mounted in the same cabinet
SameCabinet(i, j) ==
    /\ i # j
    /\ HasMount(At(equipment, i))
    /\ At(equipment, i).mountedIn = At(equipment, j).mountedIn
    /\ At(equipment, At(equipment, i).mountedIn).type = "cabinet"

\* C1: in every reachable state the rack ranges of any two distinct items
\* mounted in the same cabinet are disjoint.
C1_RackRangesDisjoint ==
    \A i, j \in Indices(equipment) :
        SameCabinet(i, j) =>
            RackRange(At(equipment, i)) \cap RackRange(At(equipment, j)) = {}

-----------------------------------------------------------------------------
(* Connection endpoints *)

\* The endpoint names an entity of its list
EndpointInRange(kind, index) ==
    \/ kind = "equipment" /\ index \in Indices(equipment)
    \/ kind = "tray" /\ index \in Indices(trays)

\* C4: in every reachable state both endpoints of every stored connection
\* name an existing equipment item or tray, and getConnectionAnchor yields a
\* point for each of them.
C4_EndpointsResolve ==
    \A k \in 1 .. Len(connections) :
        LET c == connections[k]
        IN /\ EndpointInRange(c.fromKind, c.fromIndex)
           /\ EndpointInRange(c.toKind, c.toIndex)
           /\ getConnectionAnchor(Ref(c.fromKind, c.fromIndex), equipment, trays).tag = "point"
           /\ getConnectionAnchor(Ref(c.toKind, c.toIndex), equipment, trays).tag = "point"

\* A connection between an item and a tray has outlived a removal that
\* renumbered the item, in a state where the tray has been dragged
C4_Witness ==
    /\ Len(connections) = 1
    /\ Len(equipment) = 1 /\ Len(trays) = 1
    /\ {connections[1].fromKind, connections[1].toKind} = {"equipment", "tray"}
    /\ trays[1].x # defaultTray.x
    /\ lastOp.op = "removeEquipment"

-----------------------------------------------------------------------------
(* Drawn positions *)

\* The plan position of item i in the 2D plan, in the 3D scene and as a
\* connection anchor
DisplayXY(i) ==
    LET shown == getMountedEquipmentDisplay(At(equipment, i), equipment)
    IN [x |-> shown.x, y |-> shown.y]
SceneXY(i) == scenePosition(At(equipment, i), equipment)
AnchorXY(i) ==
    LET anchor == getConnectionAnchor(Ref("equipment", i), equipment, trays)
    IN [x |-> anchor.x, y |-> anchor.y]

\* C10: in every reachable state each item is drawn at the same (x, y) in the
\* 2D plan and in the 3D scene, and its connection anchor has that (x, y); for
\* an item mounted in a cabinet it is the cabinet's current position.
C10_SamePositionEverywhere ==
    \A i \in Indices(equipment) :
        /\ DisplayXY(i) = SceneXY(i)
        /\ DisplayXY(i) = AnchorXY(i)
        /\ (HasMount(At(equipment, i)) /\ At(equipment, At(equipment, i).mountedIn).type = "cabinet")
              => DisplayXY(i) = [x |-> At(equipment, At(equipment, i).mountedIn).x,
                                 y |-> At(equipment, At(equipment, i).mountedIn).y]

-----------------------------------------------------------------------------
(* Removal of equipment from every five-item project *)

RemoveLen == 5

\* The hardware form holding `type`, an install mode and a rack cabinet
\* App.jsx:182-192 and 994-1014
draftOf(type, mode, target) ==
    [defaultEquipment EXCEPT
        !.type = type, !.width = EQUIPMENT_PRESETS[type].width,
        !.depth = EQUIPMENT_PRESETS[type].depth, !.height = EQUIPMENT_PRESETS[type].height,
        !.installMode = mode, !.mountTarget = target]

\* The forms offered when the list has n items
BuildDrafts(n) ==
    {draftOf("cabinet", "floor", NULL), draftOf("switch", "floor", NULL)}
        \cup {draftOf("switch", "rack", c) : c \in 0 .. (n - 1)}

\* The equipment lists that n clicks on Add Hardware produce (App.jsx:606-649)
RECURSIVE BuiltLists(_)
BuiltLists(n) ==
    IF n = 0 THEN {<< >>}
    ELSE {Append(pair[1], addEquipmentResult(pair[2], pair[1]).item) :
             pair \in {q \in BuiltLists(n - 1) \X BuildDrafts(n - 1) :
                          addEquipmentResult(q[2], q[1]).ok}}

\* ... after which the Asset Type of one cabinet may have been changed to
\* crac (App.jsx:818-836)
RetypedLists(lists) ==
    {[l EXCEPT ![k] = retypeItem(l[k], "crac", l)] :
        <<l, k>> \in {q \in lists \X (1 .. RemoveLen) : q[1][q[2]].type = "cabinet"}}

\* The connections Add Connection stores between two connectable options
BuiltConnections(list, trayList) ==
    LET options == SeqRange(connectableOptions(list, trayList))
        results == {addConnectionResult([defaultConnection EXCEPT !.fromRef = pair[1],
                                                                  !.toRef = pair[2]],
                                        list, trayList) : pair \in options \X options}
    IN {<< >>} \cup {<<r.item>> : r \in {q \in results : q.ok}}

InitRemove ==
    /\ equipment \in BuiltLists(RemoveLen) \cup RetypedLists(BuiltLists(RemoveLen))
    /\ trays = <<defaultTray>>
    /\ connections \in BuiltConnections(equipment, trays)
    /\ openings = <<defaultOpening>>
    /\ room = defaultRoom
    /\ selectedTarget = NoSelection
    /\ equipmentDraft = defaultEquipment
    /\ connectionDraft = refreshConnectionDraft(defaultConnection, equipment, trays)
    /\ interaction = idleInteraction
    /\ lastOp = Op("init", NULL)
    /\ fnIn = NoCall
    /\ fnOut = NoResult

NextRemove == \E index \in Indices(equipment) : RemoveEquipment(index)

SpecRemove == InitRemove /\ [][NextRemove]_vars

\* The indices that go when item i is removed: the item, and with a cabinet
\* everything mounted in it
Cascade(list, i) ==
    IF At(list, i).type = "cabinet"
    THEN {i} \cup {j \in Indices(list) : At(list, j).mountedIn = i}
    ELSE {i}

\* The number of removed indices below r: what a surviving reference r loses
Below(removed, r) == Cardinality({q \in removed : q < r})

\* A reference after the removal of `removed`
Renumbered(r, removed) == IF r = NULL THEN NULL ELSE r - Below(removed, r)

\* The connection has an equipment endpoint among `removed`
Attached(c, removed) ==
    \/ c.fromKind = "equipment" /\ c.fromIndex \in removed
    \/ c.toKind = "equipment" /\ c.toIndex \in removed

\* The positions of the connections that are not attached to `removed`
Detached(removed) == {k \in 1 .. Len(connections) : ~Attached(connections[k], removed)}

\* The connection with its equipment endpoints renumbered
RenumberedConnection(c, removed) ==
    [c EXCEPT !.fromIndex = IF c.fromKind = "equipment" THEN Renumbered(@, removed) ELSE @,
              !.toIndex = IF c.toKind = "equipment" THEN Renumbered(@, removed) ELSE @]

\* The step is removeEquipment(i)
RemovesEquipment(i) == lastOp'.op = "removeEquipment" /\ lastOp'.arg = i

\* C5, as amended: removeEquipment(i) lowers every surviving mountedIn and
\* every equipment endpoint of a surviving connection by the number of removed
\* indices below it (by exactly 1 when only item i goes, by more when a cabinet
\* takes its mounted items with it), nulls a mountedIn (with rackStart) that
\* names a removed index, drops the connections attached to a removed index
\* and leaves references below every removed index as they are.
C5_ReferencesLoseRemovedBelow ==
    [][\A i \in Indices(equipment) :
          RemovesEquipment(i) =>
            LET removed == Cascade(equipment, i)
            IN /\ \A j \in Indices(equipment) \ removed :
                     LET old == equipment[j + 1]
                         new == equipment'[j - Below(removed, j) + 1]
                     IN IF old.mountedIn \in removed
                        THEN new.mountedIn = NULL /\ new.rackStart = NULL
                        ELSE /\ new.mountedIn = Renumbered(old.mountedIn, removed)
                             /\ (removed = {i} /\ old.mountedIn > i
                                   => new.mountedIn = old.mountedIn - 1)
                             /\ (old.mountedIn < i => new.mountedIn = old.mountedIn)
               /\ Len(connections') = Cardinality(Detached(removed))
               /\ \A k \in Detached(removed) :
                     LET old == connections[k]
                         new == connections'[Cardinality({m \in Detached(removed) : m <= k})]
                     IN /\ new.fromKind = old.fromKind /\ new.toKind = old.toKind
                        /\ new.fromIndex = RenumberedConnection(old, removed).fromIndex
                        /\ new.toIndex = RenumberedConnection(old, removed).toIndex
      ]_vars

\* C5, as claimed: removeEquipment(i) lowers by exactly 1 every mountedIn and
\* every equipment endpoint above i, nulls or drops every reference equal to
\* i, and leaves every reference below i unchanged.
C5_ReferencesLoseExactlyOne ==
    [][\A i \in Indices(equipment) :
          RemovesEquipment(i) =>
            LET removed == lastOp'.removed
            IN /\ \A j \in Indices(equipment) \ removed :
                     LET old == equipment[j + 1]
                         new == equipment'[j - Below(removed, j) + 1]
                     IN /\ old.mountedIn > i => new.mountedIn = old.mountedIn - 1
                        /\ old.mountedIn = i => new.mountedIn = NULL
                        /\ old.mountedIn < i => new.mountedIn = old.mountedIn
               /\ \A k \in 1 .. Len(connections) :
                     LET old == connections[k]
                     IN IF Attached(old, {i})
                        THEN \A m \in 1 .. Len(connections') :
                                connections'[m] # RenumberedConnection(old, {i})
                        ELSE \E m \in 1 .. Len(connections') :
                                connections'[m] =
                                    [old EXCEPT
                                        !.fromIndex = IF old.fromKind = "equipment" /\ @ > i
                                                      THEN @ - 1 ELSE @,
                                        !.toIndex = IF old.toKind = "equipment" /\ @ > i
                                                    THEN @ - 1 ELSE @]
      ]_vars

\* A cabinet went with one mounted item; the item behind them, mounted in a
\* cabinet that moved from index 3 to index 1, now has index 2
C5_Witness ==
    /\ lastOp.op = "removeEquipment"
    /\ Cardinality(lastOp.removed) = 2
    /\ \A r \in lastOp.removed : r < 2
    /\ Len(equipment) = 3
    /\ equipment[3].mountedIn = 1
    /\ Len(connections) = 1

\* C6: removeEquipment(i) on a cabinet removes exactly the cabinet and the
\* items mounted in it, and the connections attached to them; every other
\* item, every tray, every opening and every other connection stays, only
\* its index references renumbered, and no remaining item was mounted in a
\* removed one.
C6_CabinetRemovalFrame ==
    [][\A i \in Indices(equipment) :
          (RemovesEquipment(i) /\ At(equipment, i).type = "cabinet") =>
            LET removed == {i} \cup {j \in Indices(equipment) : equipment[j + 1].mountedIn = i}
                kept == Detached(removed)
            IN /\ Len(equipment') = Len(equipment) - Cardinality(removed)
               /\ \A j \in Indices(equipment) \ removed :
                     /\ equipment[j + 1].mountedIn \notin removed
                     /\ equipment'[j - Below(removed, j) + 1] =
                           [equipment[j + 1] EXCEPT !.mountedIn = Renumbered(@, removed)]
               /\ \A j \in Indices(equipment') : equipment'[j + 1].mountedIn < j
               /\ trays' = trays
               /\ openings' = openings
               /\ Len(connections') = Cardinality(kept)
               /\ \A k \in kept :
                     connections'[Cardinality({m \in kept : m <= k})] =
                        RenumberedConnection(connections[k], removed)
      ]_vars

\* A cabinet went with two mounted items; a floor item, a tray, an opening
\* and the connection between the item and the tray stayed
C6_Witness ==
    /\ lastOp.op = "removeEquipment"
    /\ Cardinality(lastOp.removed) = 3
    /\ Len(equipment) = 2
    /\ Len(trays) = 1 /\ Len(openings) = 1
    /\ Len(connections) = 1
    /\ connections[1].fromKind = "equipment" /\ connections[1].toKind = "tray"

-----------------------------------------------------------------------------
(* Adding hardware to a cabinet that is nearly full *)

FilledUnits == 13
MaxFill == 16
FillTypes == {"cabinet", "switch", "ups"}

\* The project after Add Hardware on a cabinet and n times on an ups mounted
\* in it (App.jsx:606-649)
RECURSIVE filledRack(_)
filledRack(n) ==
    IF n = 0 THEN <<addEquipmentResult(defaultEquipment, << >>).item>>
    ELSE Append(filledRack(n - 1),
                addEquipmentResult(draftOf("ups", "rack", 0), filledRack(n - 1)).item)

InitFill ==
    /\ equipment = filledRack(FilledUnits)
    /\ trays = << >>
    /\ connections =
         <<addConnectionResult([defaultConnection EXCEPT !.fromRef = Ref("equipment", 0),
                                                         !.toRef = Ref("equipment", 1)],
                               equipment, trays).item>>
    /\ openings = << >>
    /\ room = defaultRoom
    /\ selectedTarget = NoSelection
    /\ equipmentDraft = draftOf("ups", "rack", 0)
    /\ connectionDraft = [defaultConnection EXCEPT !.fromRef = Ref("equipment", 0),
                                                   !.toRef = Ref("equipment", 1)]
    /\ interaction = idleInteraction
    /\ lastOp = Op("init", NULL)
    /\ fnIn = NoCall
    /\ fnOut = NoResult

NextFill ==
    \/ \E t \in FillTypes : SetDraftType(t)
    \/ \E mode \in {"floor", "rack"} : SetDraftInstallMode(mode)
    \/ \E target \in Indices(equipment) \cup {NULL} : SetDraftMountTarget(target)
    \/ AddEquipmentUpTo(MaxFill)
    \/ \E index \in (FilledUnits + 1) .. (Len(equipment) - 1) : RemoveEquipment(index)
    \/ \E index \in {0, Len(equipment) - 1} : Select("equipment", index)

SpecFill == InitFill /\ [][NextFill]_vars

\* The form asks for a place in a rack
RackPlacement ==
    /\ EQUIPMENT_PRESETS[equipmentDraft.type].mountable
    /\ equipmentDraft.installMode = "rack"
    /\ equipmentDraft.mountTarget # NULL

\* The mount target is no existing item of type cabinet
TargetNotCabinet ==
    \/ equipmentDraft.mountTarget \notin Indices(equipment)
    \/ equipment[equipmentDraft.mountTarget + 1].type # "cabinet"

\* The slot getNextRackStart returns ends beyond the cabinet's capacity
OverCapacity ==
    /\ ~TargetNotCabinet
    /\ LET n == EQUIPMENT_PRESETS[equipmentDraft.type].rackUnits
           start == getNextRackStart(equipment, equipmentDraft.mountTarget, n)
       IN start + n - 1 > rackCapacityOf(equipment[equipmentDraft.mountTarget + 1])

\* C3: addEquipment in rack mode, when the returned slot ends beyond the rack
\* capacity of the target or the target is no existing cabinet, leaves the
\* equipment list, the connections and the selection unchanged.
C3_RejectedPlacementChangesNothing ==
    [][(lastOp'.op = "addEquipment" /\ RackPlacement /\ (TargetNotCabinet \/ OverCapacity))
          => /\ equipment' = equipment
             /\ connections' = connections
             /\ selectedTarget' = selectedTarget
      ]_vars

\* Add Hardware has just been refused for lack of rack units, with an item
\* selected and a connection stored
C3_Witness ==
    /\ lastOp = Op("addEquipment", NULL)
    /\ RackPlacement /\ OverCapacity
    /\ selectedTarget # NoSelection
    /\ Len(connections) = 1

\* Add Hardware has just been refused because the form still names a rack
\* cabinet that is no longer there
C3_WitnessTargetGone ==
    /\ lastOp = Op("addEquipment", NULL)
    /\ RackPlacement /\ TargetNotCabinet

-----------------------------------------------------------------------------
(* getNextRackStart on every small rack *)

MaxSlotItems == 3
SlotStarts == {1, 2, 5, 8}
SlotUnits == {1, 3, 4}
SlotCabinets == {0, 1}

\* An item mounted in cabinet c at `start`, `units` high
rackItem(c, start, units) ==
    [newItem(draftOf("switch", "rack", c), c, start, units) EXCEPT !.height = units * RU_HEIGHT]

SlotItems == {rackItem(c, start, units) : c \in SlotCabinets, start \in SlotStarts, units \in SlotUnits}

\* Two cabinets followed by up to MaxSlotItems mounted items
SlotLists ==
    {<<addEquipmentResult(defaultEquipment, << >>).item,
       addEquipmentResult(defaultEquipment, << >>).item>> \o mounted :
        mounted \in UNION {[1 .. n -> SlotItems] : n \in 0 .. MaxSlotItems}}

InitSlot ==
    /\ InitEditor
    /\ fnIn \in [fn : {"getNextRackStart"}, list : SlotLists, cabinetIndex : {0},
                 rackUnits : {1, 3}]
    /\ fnOut = NoResult

ApplyNextRackStart ==
    /\ fnIn.fn = "getNextRackStart"
    /\ fnOut = NoResult
    /\ fnOut' = Result(getNextRackStart(fnIn.list, fnIn.cabinetIndex, fnIn.rackUnits))
    /\ UNCHANGED <<equipment, trays, connections, openings, room, selectedTarget,
                   equipmentDraft, connectionDraft, interaction, lastOp, fnIn>>

SpecSlot == InitSlot /\ [][ApplyNextRackStart]_vars

\* The rack ranges occupied in the cabinet of the call
OccupiedRanges ==
    {RackRange(fnIn.list[k]) : k \in {m \in 1 .. Len(fnIn.list) :
                                          fnIn.list[m].mountedIn = fnIn.cabinetIndex}}

\* No unit of [start, start + rackUnits - 1] is occupied
FreeRun(start) ==
    \A range \in OccupiedRanges : range \cap (start .. (start + fnIn.rackUnits - 1)) = {}

\* C2: getNextRackStart returns the smallest slot s >= 1 whose run of n units
\* meets no range of an item mounted in cabinet c, whatever is mounted in
\* other cabinets: 1 for an empty cabinet, 5 for [1-4], [8-10] and n = 3, 11
\* for n = 1 once [5-7] is occupied too.
C2_LowestFreeRun ==
    fnOut # NoResult =>
        /\ fnOut.value >= 1
        /\ FreeRun(fnOut.value)
        /\ \A start \in 1 .. (fnOut.value - 1) : ~FreeRun(start)
        /\ fnOut.value =
             getNextRackStart(SelectSeq(fnIn.list, LAMBDA item : item.mountedIn = fnIn.cabinetIndex),
                              fnIn.cabinetIndex, fnIn.rackUnits)
        /\ (OccupiedRanges = {} => fnOut.value = 1)
        /\ (OccupiedRanges = {1 .. 4, 8 .. 10} /\ fnIn.rackUnits = 3 => fnOut.value = 5)
        /\ (OccupiedRanges = {1 .. 4, 5 .. 7, 8 .. 10} /\ fnIn.rackUnits = 1 => fnOut.value = 11)

\* The call on [1-4], [8-10] for three units, with an item of the other
\* cabinet in the gap, has returned 5
C2_Witness ==
    /\ fnOut = Result(5)
    /\ fnIn.rackUnits = 3
    /\ OccupiedRanges = {1 .. 4, 8 .. 10}
    /\ \E k \in 1 .. Len(fnIn.list) : fnIn.list[k].mountedIn = 1 /\ fnIn.list[k].rackStart = 5

-----------------------------------------------------------------------------
(* getConnectionAnchor and getConnectionPath on every small project *)

MaxAnchorItems == 2
AnchorIndexes == {-2, 0, 1, 2}
MissingParent == 3

\* A floor-standing item of the given type at plan position (x, 1800)
floorItem(type, x) ==
    [newItem(draftOf(type, "floor", NULL), NULL, NULL, EQUIPMENT_PRESETS[type].rackUnits)
        EXCEPT !.x = x]

\* A switch that names `parent` as its rack, stored at the plan position
\* (1200, 1800) it had when it was created
mountedItem(parent, start) == newItem(draftOf("switch", "rack", parent), parent, start, 1)

AnchorItems ==
    {floorItem("cabinet", 1200), floorItem("cabinet", 2400), floorItem("crac", 2400),
     floorItem("switch", 1200)}
    \cup {mountedItem(parent, start) : parent \in {0, 1, MissingParent}, start \in {1, 5}}

AnchorLists == UNION {[1 .. n -> AnchorItems] : n \in 0 .. MaxAnchorItems}
AnchorTrays == {<< >>, <<defaultTray>>}
AnchorRefs ==
    {NullRef} \cup {Ref(kind, index) : kind \in {"equipment", "tray", "opening"},
                                       index \in AnchorIndexes}
PathRefs == {Ref(kind, index) : kind \in {"equipment", "tray"}, index \in {0, 1, 2}}
PathConnections ==
    {[fromKind |-> from.kind, fromIndex |-> from.index, toKind |-> to.kind,
      toIndex |-> to.index, controlX |-> 0, controlY |-> 0,
      routeHeight |-> defaultConnection.routeHeight] :
        from \in PathRefs, to \in PathRefs}

InitAnchor ==
    /\ InitEditor
    /\ \/ fnIn \in [fn : {"getConnectionAnchor"}, ref : AnchorRefs, list : AnchorLists,
                    trays : AnchorTrays]
       \/ fnIn \in [fn : {"getConnectionPath"}, connection : PathConnections,
                    list : AnchorLists, trays : AnchorTrays]
    /\ fnOut = NoResult

ApplyConnectionAnchor ==
    /\ fnIn.fn = "getConnectionAnchor"
    /\ fnOut = NoResult
    /\ fnOut' = Result(getConnectionAnchor(fnIn.ref, fnIn.list, fnIn.trays))
    /\ UNCHANGED <<equipment, trays, connections, openings, room, selectedTarget,
                   equipmentDraft, connectionDraft, interaction, lastOp, fnIn>>

ApplyConnectionPath ==
    /\ fnIn.fn = "getConnectionPath"
    /\ fnOut = NoResult
    /\ fnOut' = Result(getConnectionPath(fnIn.connection, fnIn.list, fnIn.trays))
    /\ UNCHANGED <<equipment, trays, connections, openings, room, selectedTarget,
                   equipmentDraft, connectionDraft, interaction, lastOp, fnIn>>

NextAnchor == ApplyConnectionAnchor \/ ApplyConnectionPath

SpecAnchor == InitAnchor /\ [][NextAnchor]_vars

\* A reference that names an existing item or tray of the call's lists
Resolvable(ref) ==
    \/ ref.kind = "equipment" /\ ref.index >= 0 /\ ref.index < Len(fnIn.list)
    \/ ref.kind = "tray" /\ ref.index >= 0 /\ ref.index < Len(fnIn.trays)

AnchorApplied == fnIn.fn = "getConnectionAnchor" /\ fnOut # NoResult
PathApplied == fnIn.fn = "getConnectionPath" /\ fnOut # NoResult

\* C7: getConnectionAnchor never throws; it returns null exactly when the
\* reference is null, of another kind than equipment and tray, or out of range,
\* and a point otherwise; getConnectionPath returns null when either anchor
\* is null.
C7_AnchorNeverThrows ==
    /\ AnchorApplied =>
          /\ fnOut.value.tag \in {"point", "null"}
          /\ fnOut.value.tag = "null" <=> ~Resolvable(fnIn.ref)
    /\ PathApplied =>
          /\ fnOut.value.tag \in {"path", "null"}
          /\ (\/ ~Resolvable(Ref(fnIn.connection.fromKind, fnIn.connection.fromIndex))
              \/ ~Resolvable(Ref(fnIn.connection.toKind, fnIn.connection.toIndex)))
                => fnOut.value = NullPath

\* The path of a connection whose first endpoint exists and whose second
\* names an index past the end of a non-empty equipment list came back null
C7_Witness ==
    /\ PathApplied
    /\ Resolvable(Ref(fnIn.connection.fromKind, fnIn.connection.fromIndex))
    /\ fnIn.connection.toKind = "equipment"
    /\ Len(fnIn.list) > 0
    /\ fnIn.connection.toIndex >= Len(fnIn.list)
    /\ fnOut = Result(NullPath)

\* The item an in-range equipment reference of the call names
AnchoredItem == fnIn.list[fnIn.ref.index + 1]

\* The call is about an existing item
ItemAnchorApplied ==
    /\ AnchorApplied
    /\ fnIn.ref.kind = "equipment"
    /\ fnIn.ref.index >= 0 /\ fnIn.ref.index < Len(fnIn.list)

\* The item's mountedIn names an existing item of type cabinet
InCabinet(item) ==
    /\ item.mountedIn # NULL
    /\ item.mountedIn >= 0 /\ item.mountedIn < Len(fnIn.list)
    /\ fnIn.list[item.mountedIn + 1].type = "cabinet"

\* C8: the anchor of an item mounted in an existing cabinet is (cabinet.x,
\* cabinet.y, (rackStart - 1) * 44.45 + height / 2 + 40); a 1U switch at slot 5
\* of a cabinet at (1200, 1800) is anchored at (1200, 1800, 240.025).
C8_MountedAnchor ==
    (ItemAnchorApplied /\ InCabinet(AnchoredItem)) =>
        LET cabinet == fnIn.list[AnchoredItem.mountedIn + 1]
        IN /\ fnOut.value =
                Point(cabinet.x, cabinet.y,
                      (AnchoredItem.rackStart - 1) * 44450 + AnchoredItem.height \div 2 + 40000)
           /\ (AnchoredItem.rackStart = 5 /\ AnchoredItem.height = 44450
                 /\ cabinet.x = 1200 /\ cabinet.y = 1800)
                => fnOut.value = Point(1200, 1800, 240025)

\* The anchor of a switch at slot 5 of a cabinet that stands elsewhere than
\* the switch's stored position was computed
C8_Witness ==
    /\ ItemAnchorApplied /\ InCabinet(AnchoredItem)
    /\ AnchoredItem.rackStart = 5
    /\ fnIn.list[AnchoredItem.mountedIn + 1].x # AnchoredItem.x
    /\ fnOut.value.tag = "point"
    /\ fnOut.value.z = 240025

\* C9: the anchor of an item that is not mounted, or whose mountedIn names a
\* missing item or an item that is no cabinet, is (item.x, item.y, item.height).
C9_FloorAnchor ==
    (ItemAnchorApplied /\ ~InCabinet(AnchoredItem)) =>
        fnOut.value = Point(AnchoredItem.x, AnchoredItem.y, AnchoredItem.height)

\* The anchor of an item whose mountedIn names an existing item that is no
\* cabinet was computed
C9_Witness ==
    /\ ItemAnchorApplied
    /\ AnchoredItem.mountedIn # NULL
    /\ AnchoredItem.mountedIn >= 0 /\ AnchoredItem.mountedIn < Len(fnIn.list)
    /\ fnIn.list[AnchoredItem.mountedIn + 1].type = "crac"
    /\ fnOut.value.tag = "point"

\* The anchor of an item whose mountedIn names no item of the list was computed
C9_WitnessMissingParent ==
    /\ ItemAnchorApplied
    /\ AnchoredItem.mountedIn >= Len(fnIn.list)
    /\ fnOut.value.tag = "point"

-----------------------------------------------------------------------------
(* getOpeningBounds on raw opening fields *)

RawValues == {Num(v) : v \in {-500, 0, 100, 1000, 20000}} \cup {NaN, Digits(3, 500), Word}

\* The smallest room the editor allows and the default room
OpeningRooms == {[defaultRoom EXCEPT !.width = 1000, !.length = 1000, !.height = 2200], defaultRoom}

InitOpening ==
    /\ InitEditor
    /\ fnIn \in [fn : {"getOpeningBounds"},
                 opening : [offset : RawValues, width : RawValues, height : RawValues,
                            sillHeight : RawValues],
                 wall : {0, 1}, room : OpeningRooms]
    /\ fnOut = NoResult

ApplyOpeningBounds ==
    /\ fnIn.fn = "getOpeningBounds"
    /\ fnOut = NoResult
    /\ fnOut' = Result(rawOpeningBounds(fnIn.opening, getWallSegments(fnIn.room)[fnIn.wall + 1],
                                        fnIn.room))
    /\ UNCHANGED <<equipment, trays, connections, openings, room, selectedTarget,
                   equipmentDraft, connectionDraft, interaction, lastOp, fnIn>>

SpecOpening == InitOpening /\ [][ApplyOpeningBounds]_vars

\* The length of the wall of the call: the room's width for the south wall,
\* its length for the east wall
OpeningWallLength == IF fnIn.wall = 0 THEN fnIn.room.width ELSE fnIn.room.length

\* C11: for a room at least 2200 high, a wall at least 1000 long and any raw
\* opening fields, getOpeningBounds returns start >= 50, end <= wall.length - 50,
\* end - start >= 150, sill >= 0, top - sill >= 100 and top <= room.height.
C11_OpeningInsideWall ==
    fnOut # NoResult =>
        /\ fnOut.value.start >= 50
        /\ fnOut.value.end <= OpeningWallLength - 50
        /\ fnOut.value.end - fnOut.value.start >= 150
        /\ fnOut.value.sill >= 0
        /\ fnOut.value.top - fnOut.value.sill >= 100
        /\ fnOut.value.top <= fnIn.room.height

\* The bounds of an opening far wider than the wall, offset past its end,
\* with a sill above the ceiling and a height that is no number were computed
C11_Witness ==
    /\ fnOut # NoResult
    /\ fnIn.opening.width = Num(20000)
    /\ fnIn.opening.offset = Num(20000)
    /\ fnIn.opening.sillHeight = Num(20000)
    /\ fnIn.opening.height = Word
    /\ fnOut.value.end = OpeningWallLength - 50
    /\ fnOut.value.top = fnIn.room.height

-----------------------------------------------------------------------------
(* getWallSegments on every tilted room *)

WallRooms ==
    {[defaultRoom EXCEPT !.width = w, !.length = l, !.southTiltDeg = south, !.eastTiltDeg = east] :
        w \in {1000, 6000}, l \in {1000, 9000}, south \in -20 .. 20, east \in -20 .. 20}

InitWalls ==
    /\ InitEditor
    /\ fnIn \in [fn : {"getWallSegments"}, room : WallRooms]
    /\ fnOut = NoResult

ApplyWallSegments ==
    /\ fnIn.fn = "getWallSegments"
    /\ fnOut = NoResult
    /\ fnOut' = Result(getWallSegments(fnIn.room))
    /\ UNCHANGED <<equipment, trays, connections, openings, room, selectedTarget,
                   equipmentDraft, connectionDraft, interaction, lastOp, fnIn>>

SpecWalls == InitWalls /\ [][ApplyWallSegments]_vars

\* C12: for a room at least 1000 wide and long with both tilts within 20
\* degrees, getWallSegments returns exactly four walls, indexed 0..3 in the
\* order South, East, North, West, each ending where the next one starts and
\* each of length > 0.
C12_WallsFormClosedPolygon ==
    fnOut # NoResult =>
        LET walls == fnOut.value
        IN /\ DOMAIN walls = 1 .. 4
           /\ \A k \in 1 .. 4 :
                /\ walls[k].index = k - 1
                /\ walls[k].end = walls[IF k = 4 THEN 1 ELSE k + 1].start
                /\ walls[k].length > 0
           /\ walls[1].start = [x |-> 0, y |-> 0]
           /\ walls[1].end.x = fnIn.room.width
           /\ walls[2].end.y - walls[2].start.y = fnIn.room.length
           /\ walls[3].end.x - walls[3].start.x = -fnIn.room.width
           /\ walls[4].end.y - walls[4].start.y = -fnIn.room.length

\* The walls of the smallest room, tilted as far as the editor allows on both
\* sides, were computed: its south wall rises and its east wall leans back
C12_Witness ==
    /\ fnOut # NoResult
    /\ fnIn.room.width = 1000 /\ fnIn.room.length = 1000
    /\ fnIn.room.southTiltDeg = 20 /\ fnIn.room.eastTiltDeg = -20
    /\ fnOut.value[1].end.y > 0
    /\ fnOut.value[2].end.x < fnOut.value[2].start.x

-----------------------------------------------------------------------------
(* Editing the room *)

NextRoom == \E field \in RoomFields : \E value \in RoomInputs : UpdateRoomField(field, value)

SpecRoom == Init /\ [][NextRoom]_vars

\* The room has the least size and at most the tilt the form allows
RoomValid(r) ==
    /\ r.height >= 2200
    /\ r.width >= 1000
    /\ r.length >= 1000
    /\ r.southTiltDeg >= -20 /\ r.southTiltDeg <= 20
    /\ r.eastTiltDeg >= -20 /\ r.eastTiltDeg <= 20

\* C13: from the default room, after any room field edits with any numbers
\* typed in, the stored room has height >= 2200, width >= 1000, length >= 1000
\* and both tilts within [-20, 20]; each edit changes only the edited field.
C13_RoomStaysValid ==
    [][/\ RoomValid(room)
       /\ RoomValid(room')
       /\ lastOp'.op = "updateRoom" =>
            /\ \A field \in RoomFields \ {lastOp'.arg} : room'[field] = room[field]
            /\ equipment' = equipment /\ trays' = trays /\ openings' = openings
            /\ connections' = connections]_vars

\* The height was just set below the minimum, after the width, the length and
\* both tilts had been typed outside their ranges
C13_Witness ==
    /\ lastOp.op = "updateRoom"
    /\ lastOp.arg = "height"
    /\ room.height = 2200
    /\ room.width = 1000 /\ room.length = 1000
    /\ room.southTiltDeg = -20 /\ room.eastTiltDeg = 20

-----------------------------------------------------------------------------
(* getTraySegments on every small tray *)

TrayDirections == {"x+", "x-", "y+", "y-", "diagonal"}
TrayTurns == {"none", "left", "right", "back"}
TrayLengths == {-700, 0, 1800, 2500}
TrayOrigins == {0, 500}

TrayInputs ==
    {[defaultTray EXCEPT !.x = origin, !.y = origin, !.primaryDirection = direction,
                         !.turn = turn, !.lengthA = lengthA, !.lengthB = lengthB] :
        origin \in TrayOrigins, direction \in TrayDirections, turn \in TrayTurns,
        lengthA \in TrayLengths, lengthB \in TrayLengths}

InitTray ==
    /\ InitEditor
    /\ fnIn \in [fn : {"getTraySegments"}, tray : TrayInputs]
    /\ fnOut = NoResult

ApplyTraySegments ==
    /\ fnIn.fn = "getTraySegments"
    /\ fnOut = NoResult
    /\ fnOut' = Result(getTraySegments(fnIn.tray))
    /\ UNCHANGED <<equipment, trays, connections, openings, room, selectedTarget,
                   equipmentDraft, connectionDraft, interaction, lastOp, fnIn>>

SpecTray == InitTray /\ [][ApplyTraySegments]_vars

\* The segment runs along the x axis or along the y axis
AxisAligned(segment) == segment.start.x = segment.end.x \/ segment.start.y = segment.end.y

\* C14: for any direction value, turn value and lengths (zero and negative
\* too), getTraySegments returns 1 or 2 segments; the first starts at (tray.x,
\* tray.y), the second starts where the first ends, every segment is
\* axis-aligned and every endpoint has z = tray.z.
C14_SegmentsAxisAligned ==
    fnOut # NoResult =>
        LET segments == fnOut.value
        IN /\ Len(segments) \in {1, 2}
           /\ segments[1].start.x = fnIn.tray.x /\ segments[1].start.y = fnIn.tray.y
           /\ Len(segments) = 2 => segments[2].start = segments[1].end
           /\ \A k \in 1 .. Len(segments) :
                /\ AxisAligned(segments[k])
                /\ segments[k].start.z = fnIn.tray.z
                /\ segments[k].end.z = fnIn.tray.z

\* The segments of a tray whose direction is none of the four names, with a
\* negative first length and a turn that is neither none, left nor right, were
\* computed: there are two
C14_Witness ==
    /\ fnOut # NoResult
    /\ fnIn.tray.primaryDirection = "diagonal"
    /\ fnIn.tray.turn = "back"
    /\ fnIn.tray.lengthA < 0
    /\ Len(fnOut.value) = 2

\* The unit vector a direction name stands for
UnitOf(direction) ==
    IF direction = "x+" THEN [x |-> 1, y |-> 0]
    ELSE IF direction = "y+" THEN [x |-> 0, y |-> 1]
    ELSE IF direction = "x-" THEN [x |-> -1, y |-> 0]
    ELSE [x |-> 0, y |-> -1]

\* The direction a quarter turn to the left (+90 degrees) leads to
LeftOf(direction) ==
    IF direction = "x+" THEN "y+"
    ELSE IF direction = "y+" THEN "x-"
    ELSE IF direction = "x-" THEN "y-"
    ELSE "x+"

\* The direction a quarter turn to the right (-90 degrees) leads to
RightOf(direction) == LeftOf(LeftOf(LeftOf(direction)))

-----------------------------------------------------------------------------
(* getPlanProjection, project and unproject on small rooms and canvases *)

\* The default room, the smallest room tilted to the limits, a tilted room
ProjectionRooms ==
    {defaultRoom,
     [defaultRoom EXCEPT !.width = 1000, !.length = 1000, !.southTiltDeg = 20, !.eastTiltDeg = -20],
     [defaultRoom EXCEPT !.southTiltDeg = -10, !.eastTiltDeg = 5]}

\* Canvases whose render size exceeds 120 px both ways: a landscape one, a
\* portrait one, the smallest one fitCanvas makes, one on a dense display
RoundTripCanvases ==
    {[width |-> 1000, height |-> 500, ratio |-> 1], [width |-> 500, height |-> 1000, ratio |-> 1],
     [width |-> 300, height |-> 240, ratio |-> 1], [width |-> 1000, height |-> 500, ratio |-> 2]}

\* And the smallest canvas on a dense display, 150 by 120 px
PlanCanvases == RoundTripCanvases \cup {[width |-> 300, height |-> 240, ratio |-> 2]}

PlanCoordinates == {Whole(-500), Whole(0), Whole(1200), Frac(12001, 2)}
PlanPoints == [x : PlanCoordinates, y : PlanCoordinates]

InitProjection ==
    /\ InitEditor
    /\ \/ fnIn \in [fn : {"project", "unproject"}, room : ProjectionRooms,
                    canvas : RoundTripCanvases, point : PlanPoints]
       \/ fnIn \in [fn : {"getPlanProjection"}, room : ProjectionRooms, canvas : PlanCanvases]
    /\ fnOut = NoResult

\* The result of the inverse function on a result
Back(v) == [tag |-> "back", value |-> v]

ApplyPlanProjection ==
    /\ fnIn.fn = "getPlanProjection"
    /\ fnOut = NoResult
    /\ fnOut' = Result(getPlanProjection(fnIn.room, fnIn.canvas))
    /\ UNCHANGED <<equipment, trays, connections, openings, room, selectedTarget,
                   equipmentDraft, connectionDraft, interaction, lastOp, fnIn>>

ApplyProject ==
    /\ \/ fnIn.fn = "project" /\ fnOut = NoResult
          /\ fnOut' = Result(project(getPlanProjection(fnIn.room, fnIn.canvas), fnIn.point))
       \/ fnIn.fn = "unproject" /\ fnOut.tag = "value"
          /\ fnOut' = Back(project(getPlanProjection(fnIn.room, fnIn.canvas), fnOut.value))
    /\ UNCHANGED <<equipment, trays, connections, openings, room, selectedTarget,
                   equipmentDraft, connectionDraft, interaction, lastOp, fnIn>>

ApplyUnproject ==
    /\ \/ fnIn.fn = "unproject" /\ fnOut = NoResult
          /\ fnOut' = Result(unproject(getPlanProjection(fnIn.room, fnIn.canvas), fnIn.point))
       \/ fnIn.fn = "project" /\ fnOut.tag = "value"
          /\ fnOut' = Back(unproject(getPlanProjection(fnIn.room, fnIn.canvas), fnOut.value))
    /\ UNCHANGED <<equipment, trays, connections, openings, room, selectedTarget,
                   equipmentDraft, connectionDraft, interaction, lastOp, fnIn>>

NextProjection == ApplyPlanProjection \/ ApplyProject \/ ApplyUnproject

SpecProjection == InitProjection /\ [][NextProjection]_vars

\* C16: on a canvas whose render size exceeds 120 px both ways, project and
\* unproject are exact inverses: unproject(project(p)) = p for every world
\* point and project(unproject(s)) = s for every screen point.
C16_ProjectionRoundTrip ==
    fnOut.tag = "back" => fnOut.value = fnIn.point

\* A world point off the grid was projected onto a portrait canvas of a tilted
\* room, to a screen point other than itself, and brought back
C16_Witness ==
    /\ fnOut.tag = "back"
    /\ fnIn.fn = "project"
    /\ fnIn.room.southTiltDeg # 0
    /\ fnIn.canvas.height > fnIn.canvas.width
    /\ fnIn.point.x = Frac(12001, 2)
    /\ fnIn.point.y = Whole(1200)
    /\ project(getPlanProjection(fnIn.room, fnIn.canvas), fnIn.point) # fnIn.point

\* The width and the height of the bounding box of the footprint of the
\* room of the call
ExtentX ==
    LET xs == {getRoomFootprint(fnIn.room)[k].x : k \in 1 .. 4}
    IN (CHOOSE hi \in xs : \A x \in xs : x <= hi) - (CHOOSE lo \in xs : \A x \in xs : lo <= x)
ExtentY ==
    LET ys == {getRoomFootprint(fnIn.room)[k].y : k \in 1 .. 4}
    IN (CHOOSE hi \in ys : \A y \in ys : y <= hi) - (CHOOSE lo \in ys : \A y \in ys : lo <= y)

\* The render width and height of the canvas of the call, less the padding
\* of 60 px on both sides
InnerWidth == Frac(fnIn.canvas.width - 120 * fnIn.canvas.ratio, fnIn.canvas.ratio)
InnerHeight == Frac(fnIn.canvas.height - 120 * fnIn.canvas.ratio, fnIn.canvas.ratio)

\* C17 as amended: the scale of getPlanProjection is the smaller of
\* (renderWidth - 120) / max(extentX, 1) and (renderHeight - 120) / max(extentY, 1),
\* each axis fitted on its own with the padding fixed at 60 px.
C17_ScaleFitsEachAxis ==
    (fnIn.fn = "getPlanProjection" /\ fnOut # NoResult) =>
        LET byWidth == Frac(InnerWidth.n, InnerWidth.d * Max(ExtentX, 1))
            byHeight == Frac(InnerHeight.n, InnerHeight.d * Max(ExtentY, 1))
        IN /\ fnOut.value.padding = 60
           /\ fnOut.value.scale = IF FracLess(byHeight, byWidth) THEN byHeight ELSE byWidth

\* C17: the scale of getPlanProjection equals min(renderWidth - 120,
\* renderHeight - 120) / max(extentX, extentY), the padding fixed at 60 px.
C17_ScaleIsMinOverMax ==
    (fnIn.fn = "getPlanProjection" /\ fnOut # NoResult) =>
        LET inner == IF FracLess(InnerHeight, InnerWidth) THEN InnerHeight ELSE InnerWidth
        IN fnOut.value.scale = Frac(inner.n, inner.d * Max(ExtentX, ExtentY))

\* The projection of the default room, longer than wide, onto a portrait
\* canvas was computed: the width decides the scale, 380 px for 6000 mm
C17_Witness ==
    /\ fnIn.fn = "getPlanProjection" /\ fnOut # NoResult
    /\ fnIn.room = defaultRoom
    /\ fnIn.canvas = [width |-> 500, height |-> 1000, ratio |-> 1]
    /\ fnOut.value.scale = Frac(380, 6000)

-----------------------------------------------------------------------------
(* Resizing cabinets and mounting into them *)

MaxSizedEquipment == 2
SizeTypes == {"cabinet", "switch", "ups"}

NextSize ==
    \/ \E t \in SizeTypes : SetDraftType(t)
    \/ \E mode \in {"floor", "rack"} : SetDraftInstallMode(mode)
    \/ \E target \in Indices(equipment) \cup {NULL} : SetDraftMountTarget(target)
    \/ AddEquipmentUpTo(MaxSizedEquipment)
    \/ \E index \in Indices(equipment) : RemoveEquipment(index)
    \/ \E index \in Indices(equipment) : Select("equipment", index)
    \/ \E value \in SizeTypes : UpdateEquipmentField("type", value)
    \/ \E field \in {"width", "depth"} : \E value \in EditSizes :
          UpdateEquipmentField(field, value)

SpecSize == Init /\ [][NextSize]_vars

\* Item i is mounted in an existing cabinet
MountedInCabinet(i) ==
    /\ equipment[i + 1].mountedIn # NULL
    /\ equipment[i + 1].mountedIn >= 0
    /\ equipment[i + 1].mountedIn < Len(equipment)
    /\ equipment[equipment[i + 1].mountedIn + 1].type = "cabinet"

\* The footprint fits the interior of the cabinet item i is mounted in
InsideCabinetOf(i, footprint) ==
    /\ footprint.width <= equipment[equipment[i + 1].mountedIn + 1].width - 120
    /\ footprint.depth <= equipment[equipment[i + 1].mountedIn + 1].depth - 180

\* C18: in every reachable state the footprint with which a rack-mounted item
\* is drawn, in the 2D plan and in the 3D scene, and the footprint stored on
\* it when it is mounted or retyped, is at most cabinet.width - 120 wide and
\* cabinet.depth - 180 deep, for every cabinet size the editor allows.
C18_FootprintInsideCabinet ==
    \A i \in 0 .. (Len(equipment) - 1) :
        MountedInCabinet(i) =>
            /\ InsideCabinetOf(i, getMountedEquipmentDisplay(equipment[i + 1], equipment))
            /\ InsideCabinetOf(i, sceneSize(equipment[i + 1], equipment))
            /\ (lastOp.op \in {"addEquipment", "retype"} /\ lastOp.arg = i)
                  => InsideCabinetOf(i, equipment[i + 1])

-----------------------------------------------------------------------------
(* Moving the endpoints of a connection; no step of this session drags or
   edits a control point *)

NextRoute ==
    \/ AddEquipmentUpTo(MaxLinkedEquipment)
    \/ AddTray
    \/ \E field \in {"fromRef", "toRef"} :
          \E ref \in SeqRange(connectableOptions(equipment, trays)) :
             SetConnectionDraftRef(field, ref)
    \/ AddConnection
    \/ \E kind \in {"equipment", "tray"} :
          \E index \in 0 .. (EntityCount(kind) - 1) : Select(kind, index)
    \/ \E value \in EditCoords : UpdateEquipmentField("y", value)
    \/ \E value \in EditCoords : UpdateTrayField("x", value)

SpecRoute == Init /\ [][NextRoute]_vars

\* C19: for a connection whose control point was never dragged or edited, in
\* every reachable state the control point of its path is (to.x, from.y) of
\* the current anchors of its endpoints, also after an endpoint was moved.
C19_ControlFollowsEndpoints ==
    \A k \in 1 .. Len(connections) :
        LET c == connections[k]
            from == getConnectionAnchor(Ref(c.fromKind, c.fromIndex), equipment, trays)
            to == getConnectionAnchor(Ref(c.toKind, c.toIndex), equipment, trays)
            path == getConnectionPath(c, equipment, trays)
        IN path.tag = "path" => path.control.x = to.x /\ path.control.y = from.y

-----------------------------------------------------------------------------
(* The add buttons *)

\* `longer` is `shorter` with exactly one entity appended
ExtendsByOne(longer, shorter) ==
    /\ Len(longer) = Len(shorter) + 1
    /\ SubSeq(longer, 1, Len(shorter)) = shorter

\* C20: an add action fails only by being disabled: whenever the Add Hardware
\* or the Add Connection button is enabled, invoking it appends exactly one
\* entity to its list; no enabled add leaves the lists unchanged.
C20_EnabledAddAppends ==
    [][/\ lastOp'.op = "addEquipment" => ExtendsByOne(equipment', equipment)
       /\ lastOp'.op = "addConnection" => ExtendsByOne(connections', connections)]_vars

-----------------------------------------------------------------------------
(* Pointer events on small plans whose entities overlap near the south wall *)

\* A cabinet that stands against the south wall, the switch Add Hardware
\* mounts in it, a tray that runs along the wall and a second door
wallCabinet == [floorItem("cabinet", 1200) EXCEPT !.y = 500]
wallSwitch == addEquipmentResult(draftOf("switch", "rack", 0), <<wallCabinet>>).item
wallTray == [defaultTray EXCEPT !.y = 100]
sideDoor == [defaultOpening EXCEPT !.offset = 3000]

PointerEquipment ==
    {<< >>, <<wallCabinet>>, <<wallCabinet, wallCabinet>>, <<wallCabinet, wallSwitch>>}
PointerTrays == {<< >>, <<wallTray, wallTray>>, <<wallTray, defaultTray>>}
PointerOpenings ==
    {<< >>, <<defaultOpening, defaultOpening>>, <<defaultOpening, sideDoor>>}

\* The connection Add Connection stores from the first connectable option to
\* the last one, as it is and with the control handle moved to (1200, 100)
\* by the Control X / Control Y fields
PointerConnections(list, trayList) ==
    LET options == connectableOptions(list, trayList)
        result == addConnectionResult([defaultConnection EXCEPT !.fromRef = options[1],
                                                                !.toRef = options[Len(options)]],
                                      list, trayList)
        moved == [result.item EXCEPT !.controlX = 1200, !.controlY = 100]
    IN IF Len(options) = 0 \/ ~result.ok THEN {<< >>}
       ELSE {<< >>, <<moved>>, <<moved, moved>>, <<moved, result.item>>}

\* World points under the pointer: where everything overlaps, on the
\* cabinet only, on the mounted switch, on the control handle but off the
\* tray, on the tray only, on the door only, on nothing; and the drop point
PressPoints ==
    {[x |-> 1200, y |-> 100], [x |-> 1200, y |-> 800], [x |-> 1200, y |-> 500],
     [x |-> 1200, y |-> 270], [x |-> 2800, y |-> 100], [x |-> 1200, y |-> -100],
     [x |-> 4000, y |-> 4000]}
DropPoints == {[x |-> 2020, y |-> 1030]}

\* The editor holding a plan of `lists`: sets of equipment, tray and opening lists
PlanOf(lists) ==
    /\ equipment \in lists.equipment
    /\ trays \in lists.trays
    /\ connections \in PointerConnections(equipment, trays)
    /\ openings \in lists.openings
    /\ room = defaultRoom
    /\ selectedTarget = NoSelection
    /\ equipmentDraft = defaultEquipment
    /\ connectionDraft = refreshConnectionDraft(defaultConnection, equipment, trays)
    /\ interaction = idleInteraction
    /\ lastOp = Op("init", NULL)
    /\ fnIn = NoCall
    /\ fnOut = NoResult

\* Press session: the pointer is pressed and released on every such plan
InitPress ==
    PlanOf([equipment |-> PointerEquipment, trays |-> PointerTrays,
            openings |-> PointerOpenings])

NextPress ==
    \/ \E point \in PressPoints : PointerDown(point)
    \/ PointerUp

SpecPress == InitPress /\ [][NextPress]_vars

\* Drag session: the pointer is pressed, moved and released on the plans
\* that hold a cabinet with a switch in it, a door, and perhaps trays
InitDrag ==
    PlanOf([equipment |-> {<<wallCabinet, wallSwitch>>},
            trays |-> {<< >>, <<wallTray, defaultTray>>},
            openings |-> {<<defaultOpening>>}])

NextDrag ==
    \/ \E point \in PressPoints : PointerDown(point)
    \/ \E point \in DropPoints : PointerMove(point)
    \/ PointerUp

SpecDrag == InitDrag /\ [][NextDrag]_vars

\* The entities of each kind under the point
EquipmentUnder(point) ==
    {i \in Indices(equipment) :
        pointInRotatedEquipment(point, getMountedEquipmentDisplay(At(equipment, i), equipment))}
TraysUnder(point) ==
    {i \in Indices(trays) :
        \E k \in 1 .. Len(getTraySegments(trays[i + 1])) :
           withinSegment(point, getTraySegments(trays[i + 1])[k].start,
                         getTraySegments(trays[i + 1])[k].end,
                         Max(trays[i + 1].width \div 2, 150))}
ConnectionsUnder(point) ==
    {i \in Indices(connections) :
        pathHit(point, getConnectionPath(connections[i + 1], equipment, trays))}
OpeningsUnder(point) ==
    {i \in Indices(openings) :
        LET wall == getWallSegments(room)[openings[i + 1].wall + 1]
            bounds == getOpeningBounds(openings[i + 1], wall, room)
        IN withinSegment(point, pointAlongWall(wall, bounds.start),
                         pointAlongWall(wall, bounds.end), 140)}

\* the selection designates the topmost entity of `under`, of that kind
SelectsTopOf(kind, under) ==
    /\ selectedTarget.kind = kind
    /\ selectedTarget.index \in under
    /\ \A j \in under : j <= selectedTarget.index

\* C21: after a pointer-down the selection is the highest-index equipment
\* item containing the point if there is one, otherwise the highest-index
\* tray within its threshold, otherwise the highest-index connection whose
\* path or handle is within threshold, otherwise the highest-index opening
\* within threshold, otherwise none; a kind earlier in that order always wins.
C21_SelectionPriority ==
    lastOp.op = "pointerDown" =>
        LET point == lastOp.point
        IN IF EquipmentUnder(point) # {} THEN SelectsTopOf("equipment", EquipmentUnder(point))
           ELSE IF TraysUnder(point) # {} THEN SelectsTopOf("tray", TraysUnder(point))
           ELSE IF ConnectionsUnder(point) # {}
           THEN SelectsTopOf("connection", ConnectionsUnder(point))
           ELSE IF OpeningsUnder(point) # {} THEN SelectsTopOf("opening", OpeningsUnder(point))
           ELSE selectedTarget = NoSelection

\* a press where two items, two trays, two connections and two doors are
\* under the pointer
C21_Witness ==
    /\ lastOp.op = "pointerDown"
    /\ Cardinality(EquipmentUnder(lastOp.point)) = 2
    /\ Cardinality(TraysUnder(lastOp.point)) = 2
    /\ Cardinality(ConnectionsUnder(lastOp.point)) = 2
    /\ Cardinality(OpeningsUnder(lastOp.point)) = 2
    /\ selectedTarget = Target("equipment", 1)

\* a press on a tray under which the first of two doors lies, no item
C21_WitnessTrayOverDoor ==
    /\ lastOp.op = "pointerDown"
    /\ EquipmentUnder(lastOp.point) = {}
    /\ TraysUnder(lastOp.point) # {}
    /\ OpeningsUnder(lastOp.point) = {0}
    /\ Len(openings) = 2
    /\ selectedTarget.kind = "tray"

-----------------------------------------------------------------------------
(* Dragging *)

\* `after` is `before` with at most the fields `fields` of entry `index`
\* changed, each to a multiple of 50
MovedOnGrid(after, before, index, fields) ==
    /\ Len(after) = Len(before)
    /\ \A k \in 1 .. Len(before) : k # index + 1 => after[k] = before[k]
    /\ index + 1 \in 1 .. Len(before) =>
          /\ DOMAIN after[index + 1] = DOMAIN before[index + 1]
          /\ \A f \in DOMAIN before[index + 1] \ fields :
                after[index + 1][f] = before[index + 1][f]
          /\ \A f \in fields : after[index + 1][f] % 50 = 0

\* C22: a pointer-move during a drag changes one entity only: x and y of the
\* dragged item or tray, or controlX and controlY of the dragged connection,
\* each set to a multiple of 50; the other entities, the other fields of the
\* dragged one, the room, the openings and the selection stay as they were.
C22_MoveChangesOnePosition ==
    [][lastOp'.op = "pointerMove" =>
          /\ interaction.dragging
          /\ room' = room /\ openings' = openings /\ selectedTarget' = selectedTarget
          /\ interaction.kind = "equipment" =>
                /\ MovedOnGrid(equipment', equipment, interaction.index, {"x", "y"})
                /\ trays' = trays /\ connections' = connections
          /\ interaction.kind = "tray" =>
                /\ MovedOnGrid(trays', trays, interaction.index, {"x", "y"})
                /\ equipment' = equipment /\ connections' = connections
          /\ interaction.kind = "connection" =>
                /\ MovedOnGrid(connections', connections, interaction.index,
                               {"controlX", "controlY"})
                /\ equipment' = equipment /\ trays' = trays]_vars

\* the control handle of a connection has been dragged to the drop point
C22_Witness ==
    /\ lastOp.op = "pointerMove"
    /\ interaction.kind = "connection"
    /\ connections[interaction.index + 1].controlX = 2000
    /\ connections[interaction.index + 1].controlY \in {1050, 850}

\* the selection designates a floor-standing item, a tray or a connection
SelectionDraggable ==
    \/ selectedTarget.kind = "equipment" /\ ~HasMount(At(equipment, selectedTarget.index))
    \/ selectedTarget.kind \in {"tray", "connection"}

\* C23: a drag is active only between a pointer-down that hits a
\* floor-standing item, a tray or a connection and the next pointer-up: a
\* pointer-down on a rack-mounted item, on an opening or on nothing starts no
\* drag, a pointer-up ends the drag, and while no drag is active pointer
\* events change no entity.
C23_DragOnlyBetweenDownAndUp ==
    [][/\ (interaction'.dragging /\ ~interaction.dragging) => lastOp'.op = "pointerDown"
       /\ lastOp'.op = "pointerDown" =>
             /\ interaction'.dragging <=> SelectionDraggable'
             /\ interaction'.dragging =>
                   /\ interaction'.kind = selectedTarget'.kind
                   /\ interaction'.index = selectedTarget'.index
       /\ lastOp'.op = "pointerUp" => ~interaction'.dragging
       /\ ~interaction.dragging =>
             equipment' = equipment /\ trays' = trays /\ connections' = connections]_vars

\* a press on the switch mounted in the cabinet selects it and starts no drag
C23_Witness ==
    /\ lastOp.op = "pointerDown"
    /\ selectedTarget = Target("equipment", 1)
    /\ HasMount(At(equipment, 1))
    /\ ~interaction.dragging

\* a drag has moved the cabinet and the pointer is released
C23_WitnessReleased ==
    /\ lastOp.op = "pointerUp"
    /\ At(equipment, 0).x = 2000
    /\ ~interaction.dragging

-----------------------------------------------------------------------------
(* project3D on the corners and the centre of the default room *)

\* The quarter turns, and the angle whose cosine and sine are 3/5 and 4/5
ViewAngles ==
    {Angle(Whole(1), Whole(0)), Angle(Whole(0), Whole(1)), Angle(Whole(-1), Whole(0)),
     Angle(Whole(0), Whole(-1)), Angle(Frac(3, 5), Frac(4, 5))}
QuarterTurns == {a \in ViewAngles : a.cos.d = 1}
ViewZooms == {Frac(1, 10), Frac(3, 2)}

\* modeling.js:280-287: the centre of the default room, on an 800 x 600 canvas
SceneMetrics ==
    [canvasWidth |-> 800, canvasHeight |-> 600,
     center |-> [x |-> defaultRoom.width \div 2, y |-> defaultRoom.length \div 2,
                 z |-> defaultRoom.height \div 2]]
SceneVertices ==
    [x : {0, SceneMetrics.center.x, defaultRoom.width},
     y : {0, SceneMetrics.center.y},
     z : {0, SceneMetrics.center.z, defaultRoom.height}]

InitCamera ==
    /\ InitEditor
    /\ fnIn \in [fn : {"project3D"}, vertex : SceneVertices, metrics : {SceneMetrics},
                 view3d : [yaw : ViewAngles, pitch : ViewAngles, zoom : ViewZooms]]
    /\ fnOut = NoResult

ApplyProject3D ==
    /\ fnIn.fn = "project3D"
    /\ fnOut = NoResult
    /\ fnOut' = Result(project3D(fnIn.vertex, fnIn.metrics, fnIn.view3d))
    /\ UNCHANGED <<equipment, trays, connections, openings, room, selectedTarget,
                   equipmentDraft, connectionDraft, interaction, lastOp, fnIn>>

SpecCamera == InitCamera /\ [][ApplyProject3D]_vars

\* The vertex relative to the scene centre, turned by the yaw about the
\* vertical axis: its coordinate away from the viewer before the pitch
YawedY ==
    FracAdd(FracMul(Whole(fnIn.vertex.x - fnIn.metrics.center.x), fnIn.view3d.yaw.sin),
            FracMul(Whole(fnIn.vertex.y - fnIn.metrics.center.y), fnIn.view3d.yaw.cos))
HeightAboveCentre == Whole(fnIn.vertex.z - fnIn.metrics.center.z)
ScreenBase == Frac(fnIn.metrics.canvasHeight * 72, 100)

\* the scene centre projects to (canvasWidth / 2, 0.72 * canvasHeight), depth 0
CentreAtAnchor ==
    fnIn.vertex = fnIn.metrics.center =>
        /\ fnOut.value.x = Frac(fnIn.metrics.canvasWidth, 2)
        /\ fnOut.value.y = ScreenBase
        /\ fnOut.value.depth = Whole(0)

\* C24 (as the code has it): after the yaw and then the pitch about the scene
\* centre, screen y is 0.72 * canvasHeight minus zoom times the pitched
\* coordinate y1 * cosP - dz * sinP, and depth is the other pitched
\* coordinate, y1 * sinP + dz * cosP, which the screen position does not use;
\* the scene centre projects to (canvasWidth / 2, 0.72 * canvasHeight) with
\* depth 0 for every yaw, pitch and zoom.
C24_DepthIsThirdCoordinate ==
    fnOut.tag = "value" =>
        /\ fnOut.value.depth =
              FracAdd(FracMul(YawedY, fnIn.view3d.pitch.sin),
                      FracMul(HeightAboveCentre, fnIn.view3d.pitch.cos))
        /\ fnOut.value.y =
              FracSub(ScreenBase,
                      FracMul(FracSub(FracMul(YawedY, fnIn.view3d.pitch.cos),
                                      FracMul(HeightAboveCentre, fnIn.view3d.pitch.sin)),
                              fnIn.view3d.zoom))
        /\ CentreAtAnchor

\* C24: depth is the rotated coordinate whose sign-flipped, zoom-scaled value
\* is added to 72% of the canvas height to give screen y, and the scene
\* centre projects to (canvasWidth / 2, 0.72 * canvasHeight) with depth 0.
C24_DepthIsScreenCoordinate ==
    fnOut.tag = "value" =>
        /\ fnOut.value.y = FracSub(ScreenBase, FracMul(fnOut.value.depth, fnIn.view3d.zoom))
        /\ CentreAtAnchor

\* a floor corner seen with no pitch: the depth is its height below the centre
C24_Witness ==
    /\ fnOut.tag = "value"
    /\ fnIn.vertex = [x |-> 0, y |-> 0, z |-> 0]
    /\ fnIn.view3d.yaw \in QuarterTurns
    /\ fnIn.view3d.pitch = Angle(Whole(1), Whole(0))
    /\ fnOut.value.depth = Whole(-(defaultRoom.height \div 2))

-----------------------------------------------------------------------------
(* Removing equipment and trays from four-item projects with two trays *)

RenumberLen == 4

InitRenumber ==
    /\ equipment \in BuiltLists(RenumberLen)
    /\ trays = <<defaultTray, wallTray>>
    /\ connections \in BuiltConnections(equipment, trays)
    /\ openings = <<defaultOpening>>
    /\ room = defaultRoom
    /\ selectedTarget = NoSelection
    /\ equipmentDraft = defaultEquipment
    /\ connectionDraft = refreshConnectionDraft(defaultConnection, equipment, trays)
    /\ interaction = idleInteraction
    /\ lastOp = Op("init", NULL)
    /\ fnIn = NoCall
    /\ fnOut = NoResult

NextRenumber ==
    \/ \E index \in Indices(equipment) : RemoveEquipment(index)
    \/ \E index \in Indices(trays) : RemoveTray(index)

SpecRenumber == InitRenumber /\ [][NextRenumber]_vars

\* The index an entity had before `removed` went, given its index n after:
\* the survivors keep their order
IndexBefore(n, count, removed) ==
    CHOOSE j \in (0 .. (count - 1)) \ removed :
        Cardinality({q \in (0 .. (j - 1)) \ removed : TRUE}) = n

\* The position a connection had before the connections `dropped` went
PositionBefore(m, dropped) ==
    CHOOSE k \in (1 .. Len(connections)) \ dropped :
        Cardinality({q \in (1 .. k) \ dropped : TRUE}) = m

\* The connection has an endpoint of `kind` among `removed`
AttachedTo(c, kind, removed) ==
    \/ c.fromKind = kind /\ c.fromIndex \in removed
    \/ c.toKind = kind /\ c.toIndex \in removed

\* Every connection left designates, at both ends, the entities it
\* designated before the entities `removed` of `kind` (out of `count`) went
EndpointsKeepEntity(kind, count, removed) ==
    LET dropped == {k \in 1 .. Len(connections) : AttachedTo(connections[k], kind, removed)}
    IN /\ Len(connections') = Len(connections) - Cardinality(dropped)
       /\ \A m \in 1 .. Len(connections') :
             LET new == connections'[m]
                 old == connections[PositionBefore(m, dropped)]
             IN /\ new.fromKind = old.fromKind /\ new.toKind = old.toKind
                /\ old.fromIndex = IF old.fromKind = kind
                                   THEN IndexBefore(new.fromIndex, count, removed)
                                   ELSE new.fromIndex
                /\ old.toIndex = IF old.toKind = kind
                                 THEN IndexBefore(new.toIndex, count, removed)
                                 ELSE new.toIndex

\* the item but for its rack reference
Unmounted(item) == [item EXCEPT !.mountedIn = NULL, !.rackStart = NULL]

\* C25: removeEquipment and removeTray renumber the surviving references so
\* that each designates the entity it designated before: the cabinet found at
\* a surviving item's new mountedIn, and the item or tray found at a surviving
\* connection's new endpoint index, is the one that was at the old index, also
\* when a cabinet takes its mounted items with it.
C25_ReferencesKeepEntity ==
    [][/\ lastOp'.op = "removeEquipment" =>
             LET removed == Cascade(equipment, lastOp'.arg)
                 count == Len(equipment)
             IN /\ Len(equipment') = count - Cardinality(removed)
                /\ \A n \in Indices(equipment') :
                      LET new == equipment'[n + 1]
                          old == equipment[IndexBefore(n, count, removed) + 1]
                      IN /\ Unmounted(new) = Unmounted(old)
                         /\ new.mountedIn # NULL =>
                               /\ new.mountedIn \in Indices(equipment')
                               /\ IndexBefore(new.mountedIn, count, removed) = old.mountedIn
                /\ trays' = trays
                /\ EndpointsKeepEntity("equipment", count, removed)
       /\ lastOp'.op = "removeTray" =>
             /\ equipment' = equipment
             /\ Len(trays') = Len(trays) - 1
             /\ \A n \in Indices(trays') :
                   trays'[n + 1] = trays[IndexBefore(n, Len(trays), {lastOp'.arg}) + 1]
             /\ EndpointsKeepEntity("tray", Len(trays), {lastOp'.arg})]_vars

\* a cabinet went with its switch; the switch behind them is still in the
\* cabinet that moved from index 2 to index 0, and the connection from that
\* cabinet to the second tray stayed
C25_Witness ==
    /\ lastOp.op = "removeEquipment"
    /\ lastOp.removed = {0, 1}
    /\ Len(equipment) = 2
    /\ equipment[2].mountedIn = 0
    /\ Len(connections) = 1
    /\ connections[1].fromKind = "equipment" /\ connections[1].fromIndex = 0
    /\ connections[1].toKind = "tray" /\ connections[1].toIndex = 1

\* the first tray went; the connection to the second tray now names tray 0
C25_WitnessTray ==
    /\ lastOp.op = "removeTray"
    /\ lastOp.arg = 0
    /\ Len(trays) = 1
    /\ Len(connections) = 1
    /\ connections[1].toKind = "tray" /\ connections[1].toIndex = 0
    /\ trays[1] = wallTray

-----------------------------------------------------------------------------
(* Removing entities while one is selected *)

SelectLen == 3

\* Every item connected to the first tray, and the two trays to each other
LinkedToTray(list, trayList) ==
    [k \in 1 .. (Len(list) + 1) |->
        addConnectionResult([defaultConnection EXCEPT
                                !.fromRef = IF k <= Len(list) THEN Ref("equipment", k - 1)
                                            ELSE Ref("tray", 1),
                                !.toRef = Ref("tray", 0)],
                            list, trayList).item]

InitSelect ==
    /\ equipment \in BuiltLists(SelectLen)
    /\ trays = <<defaultTray, wallTray>>
    /\ connections = LinkedToTray(equipment, trays)
    /\ openings = <<defaultOpening, sideDoor>>
    /\ room = defaultRoom
    /\ selectedTarget = NoSelection
    /\ equipmentDraft = defaultEquipment
    /\ connectionDraft = refreshConnectionDraft(defaultConnection, equipment, trays)
    /\ interaction = idleInteraction
    /\ lastOp = Op("init", NULL)
    /\ fnIn = NoCall
    /\ fnOut = NoResult

NextSelect ==
    \/ \E kind \in {"equipment", "tray", "opening", "connection"} :
          \E index \in 0 .. (EntityCount(kind) - 1) : Select(kind, index)
    \/ \E index \in Indices(equipment) : RemoveEquipment(index)
    \/ \E index \in Indices(trays) : RemoveTray(index)
    \/ \E index \in Indices(openings) : RemoveOpening(index)
    \/ \E index \in Indices(connections) : RemoveConnection(index)

SpecSelect == InitSelect /\ [][NextSelect]_vars

\* The entities of `kind` that the removal recorded in lastOp' takes away:
\* the entity itself, with a cabinet the items mounted in it, and the
\* connections attached to removed equipment or to a removed tray
GoneBy(kind) ==
    LET op == lastOp'.op
        gone == CASE op = "removeEquipment" -> Cascade(equipment, lastOp'.arg)
                  [] OTHER -> {lastOp'.arg}
        own == CASE op = "removeEquipment" -> "equipment"
                 [] op = "removeTray" -> "tray"
                 [] op = "removeOpening" -> "opening"
                 [] OTHER -> "connection"
    IN IF kind = own THEN gone
       ELSE IF kind = "connection" /\ own \in {"equipment", "tray"}
       THEN {k - 1 : k \in {q \in 1 .. Len(connections) :
                               AttachedTo(connections[q], own, gone)}}
       ELSE {}

\* C26: after removeEquipment, removeTray, removeOpening or removeConnection
\* a selection whose entity was not removed designates that entity still, its
\* index lowered by the number of removed entities of its kind below it (also
\* a selected connection when other connections go with removed equipment or
\* a removed tray); a selection whose entity was removed becomes none; and the
\* selection never names an index outside its list.
C26_SelectionFollowsEntity ==
    [][/\ (lastOp'.op \in {"removeEquipment", "removeTray", "removeOpening", "removeConnection"}
             /\ selectedTarget # NoSelection) =>
             LET gone == GoneBy(selectedTarget.kind)
             IN IF selectedTarget.index \in gone
                THEN selectedTarget' = NoSelection
                ELSE selectedTarget' =
                        Target(selectedTarget.kind,
                               selectedTarget.index - Below(gone, selectedTarget.index))
       /\ selectedTarget' # NoSelection =>
             selectedTarget'.index \in
                0 .. ((CASE selectedTarget'.kind = "equipment" -> Len(equipment')
                         [] selectedTarget'.kind = "tray" -> Len(trays')
                         [] selectedTarget'.kind = "opening" -> Len(openings')
                         [] OTHER -> Len(connections')) - 1)]_vars

-----------------------------------------------------------------------------
(* Rack references *)

\* C27: in every reachable state every item with a non-null mountedIn names
\* an existing item other than itself whose type is cabinet, and every
\* cabinet has mountedIn = null, whatever was added, removed or retyped.
C27_MountsNameCabinets ==
    \A i \in Indices(equipment) :
        LET item == equipment[i + 1]
        IN /\ item.mountedIn # NULL =>
                 /\ item.mountedIn \in Indices(equipment)
                 /\ item.mountedIn # i
                 /\ equipment[item.mountedIn + 1].type = "cabinet"
           /\ item.type = "cabinet" => item.mountedIn = NULL

\* Refill session: the nearly full cabinet, where the Asset Type of the
\* selected item may also be changed
NextRefill ==
    \/ NextFill
    \/ \E value \in {"switch", "ups"} : UpdateEquipmentField("type", value)

SpecRefill == InitFill /\ [][NextRefill]_vars

\* C28: in every reachable state every item mounted in a cabinet lies inside
\* that cabinet's rack: rackStart >= 1 and rackStart + rackUnits - 1 <= the
\* cabinet's rack capacity (42 by default), whatever was mounted, removed or
\* retyped.
C28_MountedInsideRack ==
    \A i \in Indices(equipment) :
        LET item == equipment[i + 1]
            parent == At(equipment, item.mountedIn)
        IN (item.mountedIn # NULL /\ parent.type = "cabinet") =>
              /\ item.rackStart >= 1
              /\ item.rackStart + item.rackUnits - 1 <= rackCapacityOf(parent)

-----------------------------------------------------------------------------
(* Carving the walls of the default room around up to two openings *)

MaxCarved == 2
CarvedOpenings ==
    {[type |-> "window", wall |-> w, offset |-> o, width |-> 1000, height |-> h,
      sillHeight |-> sill] :
        w \in {0, 1}, o \in {0, 800, 1800, 2500, 20000}, h \in {1200, 5000}, sill \in {0, 900}}

InitCarve ==
    /\ InitEditor
    /\ fnIn \in [fn : {"wallSections"},
                 openings : UNION {[1 .. n -> CarvedOpenings] : n \in 0 .. MaxCarved},
                 wall : {0, 1}, room : {defaultRoom}]
    /\ fnOut = NoResult

ApplyWallSections ==
    /\ fnIn.fn = "wallSections"
    /\ fnOut = NoResult
    /\ fnOut' = Result(wallSections(fnIn.openings, getWallSegments(fnIn.room)[fnIn.wall + 1],
                                    fnIn.room))
    /\ UNCHANGED <<equipment, trays, connections, openings, room, selectedTarget,
                   equipmentDraft, connectionDraft, interaction, lastOp, fnIn>>

SpecCarve == InitCarve /\ [][ApplyWallSections]_vars

\* The wall of the call and the clamped bounds of the openings on it
CarvedWall == getWallSegments(fnIn.room)[fnIn.wall + 1]
CarvedSpans ==
    {getOpeningBounds(fnIn.openings[k], CarvedWall, fnIn.room) :
        k \in {q \in 1 .. Len(fnIn.openings) : fnIn.openings[q].wall = fnIn.wall}}
SpansOnWall == Cardinality({q \in 1 .. Len(fnIn.openings) : fnIn.openings[q].wall = fnIn.wall})

\* no two openings of the wall share a point of their spans
SpansDisjoint ==
    /\ Cardinality(CarvedSpans) = SpansOnWall
    /\ \A a, b \in CarvedSpans : a # b => a.end < b.start \/ b.end < a.start

\* The stretches of the wall between the spans: from 0 or the end of a span
\* to the next start of a span, or to the end of the wall
SolidStretches ==
    {[start |-> a,
      end |-> CHOOSE t \in {b.start : b \in CarvedSpans} \cup {CarvedWall.length} :
                 /\ t >= a
                 /\ \A u \in {b.start : b \in CarvedSpans} \cup {CarvedWall.length} :
                       u >= a => t <= u,
      z0 |-> 0, z1 |-> fnIn.room.height] :
        a \in {0} \cup {b.end : b \in CarvedSpans}}

\* The wall left below the sill and above the top of each span
SpanRemainders ==
    {[start |-> b.start, end |-> b.end, z0 |-> 0, z1 |-> b.sill] :
        b \in {c \in CarvedSpans : c.sill > 0}}
    \cup {[start |-> b.start, end |-> b.end, z0 |-> b.top, z1 |-> fnIn.room.height] :
             b \in {c \in CarvedSpans : c.top < fnIn.room.height}}

\* C29: for a wall whose openings have pairwise disjoint clamped spans the
\* sweep emits, before the sliver filter, sections that tile the wall: the
\* full-height sections are exactly the stretches between the spans from 0 to
\* wall.length, each span carries wall exactly on [0, sill] and on
\* [top, room.height], no section is emitted twice, no two sections overlap
\* and every section has end > start.
C29_SectionsTileWall ==
    (fnOut.tag = "value" /\ SpansDisjoint) =>
        LET sections == fnOut.value
        IN /\ SeqRange(sections) = SolidStretches \cup SpanRemainders
           /\ Len(sections) = Cardinality(SolidStretches \cup SpanRemainders)
           /\ \A k \in 1 .. Len(sections) :
                 sections[k].end > sections[k].start /\ sections[k].z1 > sections[k].z0
           /\ \A k, m \in 1 .. Len(sections) :
                 k # m =>
                    \/ sections[k].end <= sections[m].start
                    \/ sections[m].end <= sections[k].start
                    \/ sections[k].z1 <= sections[m].z0
                    \/ sections[m].z1 <= sections[k].z0

\* a wall with a window listed before a tall opening that starts earlier:
\* three full-height sections, the wall under and over the window
C29_Witness ==
    /\ fnOut.tag = "value"
    /\ SpansDisjoint
    /\ Len(fnIn.openings) = 2
    /\ fnIn.openings[1].wall = fnIn.wall /\ fnIn.openings[2].wall = fnIn.wall
    /\ fnIn.openings[1].offset > fnIn.openings[2].offset
    /\ fnIn.openings[1].sillHeight = 900 /\ fnIn.openings[1].height = 1200
    /\ fnIn.openings[2].sillHeight = 0 /\ fnIn.openings[2].height = 5000
    /\ Len(fnOut.value) = 5

-----------------------------------------------------------------------------
(* The footprint of every small and every tilted room on the plan canvas *)

FootprintRooms ==
    {[defaultRoom EXCEPT !.width = w, !.length = l, !.southTiltDeg = south, !.eastTiltDeg = east] :
        w \in {1000, 6000}, l \in {1000, 9000}, south \in {-20, 0, 7, 20},
        east \in {-20, 0, 7, 20}}

InitFootprint ==
    /\ InitEditor
    /\ fnIn \in [fn : {"projectFootprint"}, room : FootprintRooms, canvas : PlanCanvases]
    /\ fnOut = NoResult

\* App.jsx:233-236: the plan drawing projects the corners of the footprint
ApplyProjectFootprint ==
    /\ fnIn.fn = "projectFootprint"
    /\ fnOut = NoResult
    /\ LET projection == getPlanProjection(fnIn.room, fnIn.canvas)
           footprint == getRoomFootprint(fnIn.room)
       IN fnOut' = Result([scale |-> projection.scale,
                           renderWidth |-> projection.renderWidth,
                           renderHeight |-> projection.renderHeight,
                           corners |-> footprint,
                           screen |-> [k \in 1 .. Len(footprint) |->
                                          project(projection,
                                                  [x |-> Whole(footprint[k].x),
                                                   y |-> Whole(footprint[k].y)])]])
    /\ UNCHANGED <<equipment, trays, connections, openings, room, selectedTarget,
                   equipmentDraft, connectionDraft, interaction, lastOp, fnIn>>

SpecFootprint == InitFootprint /\ [][ApplyProjectFootprint]_vars

\* a <= b for fractions
FracAtMost(a, b) == FracSub(b, a).n >= 0

\* the render size of the call's canvas exceeds 120 px both ways
RenderExceedsPadding ==
    /\ fnIn.canvas.width > 120 * fnIn.canvas.ratio
    /\ fnIn.canvas.height > 120 * fnIn.canvas.ratio

\* C30: for a valid room and a canvas whose render size exceeds 120 px both
\* ways, the scale is positive, every footprint corner is drawn at a screen
\* point with 60 <= x <= renderWidth - 60 and 60 <= y <= renderHeight - 60,
\* and of two corners the one with the larger world y has the smaller screen y.
C30_FootprintInsidePadding ==
    (fnOut.tag = "value" /\ RenderExceedsPadding) =>
        LET result == fnOut.value
        IN /\ result.scale.n > 0
           /\ \A k \in 1 .. Len(result.screen) :
                 /\ FracAtMost(Whole(60), result.screen[k].x)
                 /\ FracAtMost(result.screen[k].x,
                               Frac(fnIn.canvas.width - 60 * fnIn.canvas.ratio, fnIn.canvas.ratio))
                 /\ FracAtMost(Whole(60), result.screen[k].y)
                 /\ FracAtMost(result.screen[k].y,
                               Frac(fnIn.canvas.height - 60 * fnIn.canvas.ratio, fnIn.canvas.ratio))
           /\ \A k, m \in 1 .. Len(result.screen) :
                 result.corners[k].y > result.corners[m].y =>
                    /\ result.screen[k].y # result.screen[m].y
                    /\ FracAtMost(result.screen[k].y, result.screen[m].y)

\* the footprint of a room tilted both ways on a dense landscape canvas: a
\* corner is drawn on the lower padding line and another on the upper one
C30_Witness ==
    /\ fnOut.tag = "value"
    /\ RenderExceedsPadding
    /\ fnIn.room.southTiltDeg = 20 /\ fnIn.room.eastTiltDeg = -20
    /\ fnIn.canvas.ratio = 2
    /\ \E k \in 1 .. 4 : fnOut.value.screen[k].y = Whole(60)
    /\ \E k \in 1 .. 4 :
          fnOut.value.screen[k].y =
             Frac(fnIn.canvas.height - 60 * fnIn.canvas.ratio, fnIn.canvas.ratio)

====
